---- MODULE Spec2Model ----
(***************************************************************************)
(* The query-history pipeline of fabric-mcp: the capture loop              *)
(* (query_history_logger.py), its Windows service host                     *)
(* (query_history_service.py) and the log reader (query_history_reader.py),*)
(* with two of the lakehouse tools (lakehouse_sql_tool.py).                *)
(*                                                                         *)
(* Python values are modelled as follows.  A str is a sequence of          *)
(* one-character strings.  An optional argument is a sequence of length 0  *)
(* (None) or 1 (the value).  A datetime is a number of clock units since   *)
(* an epoch, UnitsPerHour units to the hour.  The log file is the sequence *)
(* of its lines; a line is the JSON text json.dumps produced, kept as the  *)
(* sequence of its members, each a <<key, kind, text>> triple.             *)
(***************************************************************************)
EXTENDS Integers, Sequences, FiniteSets, TLC

\* ------------------------------------------------------------- bounds
\* Clock units in one hour (the resolution of the modelled clock).
UnitsPerHour == 2
\* Last instant of the modelled clock.
MaxTime == 3
\* Most lines the log file holds; the accessor returns only what fits.
MaxLog == 2
\* Most distinct short query texts in a list given to summarize_queries.
MaxGroups == 11
\* Most further records in such a list.
MaxExtra == 2
\* Most rows the table listing query returns.
MaxRows == 2

\* The connections the server accepts at a time.
MaxConns == 2
\* Most tables of a schema.
MaxTables == 4

\* ---------------------------------------------------- program constants
\* str(query[7])[:500]
QueryTextLimit == 500
\* CAPTURE_INTERVAL_SECONDS = 300
CAPTURE_INTERVAL_SECONDS == 300
\* win32event.WaitForSingleObject(self.stop_event, 60000) after an error
ErrorWaitMs == 60000
\* limit = min(limit, 1000)
SampleMax == 1000
\* key = q["query_text"][:100]
SummaryPrefix == 100
\* sorted_groups[:10]
TopGroups == 10

\* --------------------------------------------------------------- values
Min(a, b) == IF a <= b THEN a ELSE b

\* Python's str.lower on one character.
LowerChar(c) ==
    CASE c = "S" -> "s"
      [] c = "E" -> "e"
      [] c = "X" -> "x"
      [] OTHER -> c

\* As Lower, with the call of lower() left out.
MutLower(s) == s

\* str.lower(): every character lowered.
Lower(s) == [i \in 1..Len(s) |-> LowerChar(s[i])]

\* needle in hay, for str: some window of hay equals needle.
Contains(hay, needle) ==
    \E i \in 0..(Len(hay) - Len(needle)) :
        \A j \in 1..Len(needle) : hay[i + j] = needle[j]

\* As Truncate, keeping the last n characters.
MutTruncate(s, n) == SubSeq(s, Len(s) - Min(Len(s), n) + 1, Len(s))

\* s[:n]
Truncate(s, n) == SubSeq(s, 1, Min(Len(s), n))

\* int -> decimal text and back.
ParseInt(s) == CHOOSE n \in 0..(MaxTime + 1) : ToString(n) = s

\* datetime.isoformat(): the fraction is left out when it is zero.
IsoFormat(t) ==
    IF t % UnitsPerHour = 0
    THEN <<"T", ToString(t \div UnitsPerHour)>>
    ELSE <<"T", ToString(t \div UnitsPerHour), ".", ToString(t % UnitsPerHour)>>

\* datetime.fromisoformat(): accepts both shapes.
FromIsoFormat(s) ==
    ParseInt(s[2]) * UnitsPerHour + (IF Len(s) = 4 THEN ParseInt(s[4]) ELSE 0)

\* str(datetime): date and time separated by a blank, fraction as above.
StrDatetime(t) ==
    IF t % UnitsPerHour = 0
    THEN <<" ", ToString(t \div UnitsPerHour)>>
    ELSE <<" ", ToString(t \div UnitsPerHour), ".", ToString(t % UnitsPerHour)>>

\* ----------------------------------------------------------------- JSON
\* The keys of a log record, in the order capture_and_log builds the dict.
Keys ==
    <<"captured_at", "execution_count", "creation_time", "last_execution_time",
      "cpu_time_ms", "elapsed_time_ms", "logical_reads", "logical_writes",
      "query_text">>

\* The keys whose values capture_and_log makes a str.
StrKeys == {"captured_at", "creation_time", "last_execution_time", "query_text"}

\* As EscapeChar, with the backslash written as it is.
MutEscapeChar(c) ==
    CASE c = "\n" -> <<"\\", "n">>
      [] c = "\"" -> <<"\\", "\"">>
      [] OTHER -> <<c>>

\* json.dumps of one character of a str.
EscapeChar(c) ==
    CASE c = "\n" -> <<"\\", "n">>
      [] c = "\\" -> <<"\\", "\\">>
      [] c = "\"" -> <<"\\", "\"">>
      [] OTHER -> <<c>>

\* json.dumps of a str, without the enclosing quotes.
\* Each character is escaped by itself, so the two halves of a str are
\* escaped apart and joined.
RECURSIVE Escape(_)
Escape(s) ==
    IF Len(s) = 0 THEN <<>>
    ELSE IF Len(s) = 1 THEN EscapeChar(s[1])
    ELSE LET m == Len(s) \div 2
         IN  Escape(SubSeq(s, 1, m)) \o Escape(SubSeq(s, m + 1, Len(s)))

\* Whether json.loads accepts the text between two quotes.
RECURSIVE ValidText(_)
ValidText(t) ==
    IF t = <<>> THEN TRUE
    ELSE IF Head(t) = "\\"
         THEN /\ Len(t) >= 2
              /\ t[2] \in {"n", "\\", "\""}
              /\ ValidText(Tail(Tail(t)))
         ELSE /\ Head(t) \notin {"\n", "\""}
              /\ ValidText(Tail(t))

\* json.loads of the text between two quotes.
\* A long text is decoded in two parts, cut where no escape sequence is
\* split: a backslash that ends an odd run of backslashes begins one.
RECURSIVE Unescape(_)
Unescape(t) ==
    IF t = <<>> THEN <<>>
    ELSE IF Len(t) <= 2
    THEN IF Head(t) = "\\"
         THEN <<(IF t[2] = "n" THEN "\n" ELSE t[2])>> \o Unescape(Tail(Tail(t)))
         ELSE <<Head(t)>> \o Unescape(Tail(t))
    ELSE LET m == Len(t) \div 2
             run == CHOOSE r \in 0..m :
                        /\ \A j \in (m - r + 1)..m : t[j] = "\\"
                        /\ r = m \/ t[m - r] # "\\"
             cut == IF run % 2 = 1 THEN m + 1 ELSE m
         IN  Unescape(SubSeq(t, 1, cut)) \o Unescape(SubSeq(t, cut + 1, Len(t)))

\* json.dumps(entry): one member per key, in the dict's order.
JsonDumps(entry) ==
    [i \in 1..Len(Keys) |->
        IF Keys[i] \in StrKeys
        THEN [key |-> Keys[i], kind |-> "str", num |-> 0, text |-> Escape(entry[Keys[i]])]
        ELSE [key |-> Keys[i], kind |-> "num", num |-> entry[Keys[i]], text |-> <<>>]]

\* Whether json.loads(line) returns (it raises JSONDecodeError otherwise).
JsonValid(line) ==
    \A i \in 1..Len(line) : line[i].kind = "str" => ValidText(line[i].text)

\* The member of a line that json.loads stores under a key.
Member(line, k) == line[CHOOSE i \in 1..Len(line) : line[i].key = k]

\* json.loads(line): the dict of the line's members.
JsonLoads(line) ==
    [k \in {line[i].key : i \in 1..Len(line)} |->
        IF Member(line, k).kind = "str"
        THEN Unescape(Member(line, k).text)
        ELSE Member(line, k).num]

\* ------------------------------------------------------ source accessor
\* Rows the execution-plan cache may report: (execution_count,
\* creation_time, last_execution_time, cpu_time_ms, elapsed_time_ms,
\* logical_reads, logical_writes, query_text).
RowA == <<1, 0, 1, 50, 60, 7, 0, <<"S", "e", "\n", "x">>>>
RowB == <<2, 1, 0, 100, 0, 3, 1, <<"x", "\\", "\"">>>>
Rows == {RowA, RowB}

\* get_query_history(top_n): the lists of rows it may return.
Batches == {<<>>} \cup {<<r>> : r \in Rows} \cup {<<r, q>> : r \in Rows, q \in Rows}

\* Rows whose text is about as long as the limit of capture_and_log; its
\* first and its last character differ from the rest.
LongRows ==
    {<<1, 0, 1, 50, 60, 7, 0,
       [i \in 1..n |-> IF i = 1 THEN "a" ELSE IF i = n THEN "z" ELSE "b"]>> :
        n \in (QueryTextLimit - 1)..(QueryTextLimit + MaxRows)}

\* ------------------------------------------------------------- capture
\* As MakeEntry, with captured_at taken from the row's last execution time.
MutMakeEntry(ts, query) ==
    [captured_at         |-> IsoFormat(query[3]),
     execution_count     |-> query[1],
     creation_time       |-> StrDatetime(query[2]),
     last_execution_time |-> StrDatetime(query[3]),
     cpu_time_ms         |-> query[4],
     elapsed_time_ms     |-> query[5],
     logical_reads       |-> query[6],
     logical_writes      |-> query[7],
     query_text          |-> Truncate(query[8], QueryTextLimit)]

\* The dict capture_and_log builds for one row.
MakeEntry(ts, query) ==
    [captured_at         |-> IsoFormat(ts),
     execution_count     |-> query[1],
     creation_time       |-> StrDatetime(query[2]),
     last_execution_time |-> StrDatetime(query[3]),
     cpu_time_ms         |-> query[4],
     elapsed_time_ms     |-> query[5],
     logical_reads       |-> query[6],
     logical_writes      |-> query[7],
     query_text          |-> Truncate(query[8], QueryTextLimit)]

\* As AppendLine, had the file been opened with mode "w".
MutAppendLine(file, line) == <<line>>

\* open(LOG_FILE, "a") ... f.write(line + "\n"): the file after the write.
AppendLine(file, line) == Append(file, line)

\* --------------------------------------------------------------- state
VARIABLES
    host,          \* "standalone" (query_history_logger.main) or "service"
    now,           \* the UTC clock
    fileExists,    \* whether LOG_FILE exists
    log,           \* the lines of LOG_FILE
    tail,          \* what LOG_FILE holds after its last newline
    written,       \* history: per line, the dict given to json.dumps, the instant, the row
    lpc,           \* where the capture loop is
    queries,       \* capture_and_log: the accessor's result
    timestamp,     \* capture_and_log: timestamp (as a datetime)
    idx,           \* capture_and_log: the next element of the for loop
    tickStartLen,  \* history: the log's line count when this tick began
    outcome,       \* history: how the last capture_and_log ended
    calls,         \* history: the calls of get_query_history in this tick
    waited,        \* the milliseconds the loop's current wait has lasted
    sigint,        \* standalone: Ctrl+C was pressed and is not yet raised
    running,       \* service: self.running
    stopEvent,     \* service: self.stop_event is signalled
    spc,           \* service: where the SvcStop handler thread is
    rpc,           \* where the reader is
    rparams,       \* read_query_history's arguments
    result,        \* read_query_history's return value
    again,         \* the return value of a second call with the same arguments
    report,        \* what summarize_queries printed
    rpos,          \* read_query_history: the lines the for loop has taken
    rcut,          \* read_query_history: cutoff_time
    ropenLen,      \* history: the log's line count when the file was opened
    tpc,           \* where the caller of a lakehouse tool is
    dbRows,        \* lakehouse_list_tables_safe: the rows cursor.fetchall() gave
    tables,        \* lakehouse_list_tables_safe: the return value
    limit,         \* lakehouse_sample_table: the limit argument
    query,         \* lakehouse_sample_table: the query sent
    environ,       \* os.environ: the three settings of the lakehouse module
    config,        \* lakehouse_sql_tool: its module-level settings, once imported
    conns,         \* the database connections that are open
    arg,           \* the function called and what its surroundings give it
    ret            \* how the call ended: the value returned or the error raised

vars ==
    <<host, now, fileExists, log, tail, written, lpc, queries, timestamp, idx,
      tickStartLen, outcome, calls, waited, sigint, running, stopEvent, spc, rpc, rparams, result,
      again, report, rpos, rcut, ropenLen, tpc, dbRows, tables, limit, query,
      environ, config, conns, arg, ret>>

fileVars == <<fileExists, log, tail, written>>
tickVars == <<queries, timestamp, idx, tickStartLen, outcome, calls, waited>>
svcVars == <<sigint, running, stopEvent, spc>>
scanVars == <<rpos, rcut, ropenLen>>
readerVars == <<rpc, rparams, result, again, report, scanVars>>

listVars == <<dbRows, tables, limit, query>>
callVars == <<environ, config, conns, arg, ret>>
toolVars == <<tpc, listVars, callVars>>

\* Python's None for a setting, and a setting with a value.
Unset == <<>>
Set(v) == <<v>>

\* The call state when the process starts: nothing is set in os.environ,
\* lakehouse_sql_tool is not imported, no connection is open, no function
\* has been called.
NoCalls ==
    /\ environ = [FABRIC_SQL_ENDPOINT |-> Unset, FABRIC_LAKEHOUSE_NAME |-> Unset,
                  FABRIC_SEMANTIC_MODEL_CONNECTION |-> Unset]
    /\ config = [imported |-> FALSE, SQL_ENDPOINT |-> Unset, LAKEHOUSE_NAME |-> Unset,
                 SEMANTIC_MODEL_CONNECTION |-> Unset]
    /\ conns = 0
    /\ arg = [fn |-> "none"]
    /\ ret = [kind |-> "none"]

\* No query sent.
NoQuery == [top |-> <<>>, schema |-> <<>>, table |-> <<>>]

\* Nothing printed.
NoReport == [found |-> FALSE, total |-> 0, patterns |-> 0, top |-> <<>>]

NoParams == [hours_back |-> 0, search_text |-> <<>>, min_cpu_ms |-> <<>>]

\* The state when the process starts, under either host.
Start ==
    /\ now = 0
    /\ fileExists = FALSE
    /\ log = <<>>
    /\ tail = <<>>
    /\ written = <<>>
    /\ lpc = "start"
    /\ queries = <<>>
    /\ timestamp = 0
    /\ idx = 1
    /\ tickStartLen = 0
    /\ outcome = "none"
    /\ calls = 0
    /\ waited = 0
    /\ sigint = FALSE
    /\ running = TRUE
    /\ stopEvent = FALSE
    /\ spc = "idle"
    /\ rpc = "idle"
    /\ rparams = NoParams
    /\ result = <<>>
    /\ again = <<>>
    /\ report = NoReport
    /\ rpos = 0
    /\ rcut = 0
    /\ ropenLen = 0
    /\ tpc = "idle"
    /\ dbRows = <<>>
    /\ tables = <<>>
    /\ limit = 10
    /\ query = NoQuery
    /\ NoCalls

\* python query_history_logger.py
Init == host = "standalone" /\ Start

\* Either host: the script, or the service started by the service manager.
HostInit == host \in {"standalone", "service"} /\ Start

\* The other processes take their steps between the reader's calls and
\* while a call scans the file line by line, not while a result waits for
\* its caller.
Idle == rpc \in {"idle", "scan"}

\* ---------------------------------------------------------------- clock
ClockAdvance ==
    /\ Idle
    /\ now < MaxTime
    /\ now' = now + 1
    /\ UNCHANGED <<host, toolVars, fileVars, lpc, tickVars, svcVars, readerVars>>

\* ----------------------------------------------- query_history_logger.py
\* main(), lines 51-59: the banner, then Path(LOG_FILE).touch().
LoggerStart ==
    /\ Idle
    /\ host = "standalone"
    /\ lpc = "start"
    /\ fileExists' = TRUE
    /\ lpc' = "loop"
    /\ UNCHANGED <<host, toolVars, now, log, tail, written, tickVars, svcVars, readerVars>>

\* main(), line 62: while True, and the call of capture_and_log.
LoggerLoop ==
    /\ Idle
    /\ host = "standalone"
    /\ lpc = "loop"
    /\ lpc' = "fetch"
    /\ queries' = <<>>
    /\ idx' = 1
    /\ tickStartLen' = Len(log)
    /\ outcome' = "none"
    /\ calls' = 0
    /\ waited' = 0
    /\ UNCHANGED <<host, toolVars, now, fileVars, timestamp, svcVars, readerVars>>

\* capture_and_log returns (lines 45, 48): its locals are gone.
ReturnFromCapture ==
    /\ queries' = <<>>
    /\ timestamp' = 0
    /\ idx' = 1
    /\ tickStartLen' = 0
    /\ waited' = 0

\* capture_and_log, line 24: get_query_history returns a list of rows.
FetchReturns ==
    /\ Idle
    /\ lpc = "fetch"
    /\ \E b \in Batches :
        /\ Len(log) + Len(b) <= MaxLog
        /\ queries' = b
    /\ calls' = calls + 1
    /\ lpc' = "stamp"
    /\ UNCHANGED <<host, toolVars, now, fileVars, timestamp, idx, tickStartLen, outcome,
                   waited, svcVars, readerVars>>

\* capture_and_log, line 24: get_query_history returns rows with long texts.
FetchLongText ==
    /\ Idle
    /\ lpc = "fetch"
    /\ \E b \in {<<>>} \cup {<<r>> : r \in LongRows \cup Rows} :
        /\ Len(log) + Len(b) <= MaxLog
        /\ queries' = b
    /\ calls' = calls + 1
    /\ lpc' = "stamp"
    /\ UNCHANGED <<host, toolVars, now, fileVars, timestamp, idx, tickStartLen, outcome,
                   waited, svcVars, readerVars>>

\* As FetchRaises, without the try: the error leaves capture_and_log and main.
MutFetchRaises ==
    /\ Idle
    /\ lpc = "fetch"
    /\ outcome' = "fetch_error"
    /\ calls' = calls + 1
    /\ lpc' = "crashed"
    /\ ReturnFromCapture
    /\ UNCHANGED <<host, toolVars, now, fileVars, svcVars, readerVars>>

\* As FetchRaises, with one more try of the accessor in the same tick.
MutFetchRetries ==
    /\ Idle
    /\ lpc = "fetch"
    /\ outcome' = "fetch_error"
    /\ calls' = calls + 1
    /\ lpc' = IF calls = 0 THEN "fetch" ELSE "sleep"
    /\ IF calls = 0
       THEN UNCHANGED <<queries, timestamp, idx, tickStartLen, waited>>
       ELSE ReturnFromCapture
    /\ UNCHANGED <<host, toolVars, now, fileVars, svcVars, readerVars>>

\* capture_and_log, lines 24, 47-48: get_query_history raises; the handler
\* prints the error and capture_and_log returns.
FetchRaises ==
    /\ Idle
    /\ lpc = "fetch"
    /\ outcome' = "fetch_error"
    /\ calls' = calls + 1
    /\ lpc' = "sleep"
    /\ ReturnFromCapture
    /\ UNCHANGED <<host, toolVars, now, fileVars, svcVars, readerVars>>

\* capture_and_log, line 26: timestamp = datetime.utcnow().isoformat().
Stamp ==
    /\ Idle
    /\ lpc = "stamp"
    /\ timestamp' = now
    /\ idx' = 1
    /\ lpc' = "append"
    /\ UNCHANGED <<host, toolVars, now, fileVars, queries, tickStartLen, outcome, calls,
                   waited, svcVars, readerVars>>

\* As AppendRecord, with the text of the record and its newline written by
\* two writes, each reaching the file at once.
MutAppendRecord ==
    /\ Idle
    /\ lpc = "append"
    /\ idx <= Len(queries)
    /\ LET entry == MakeEntry(timestamp, queries[idx]) IN
        IF tail = <<>>
        THEN /\ tail' = JsonDumps(entry)
             /\ UNCHANGED <<log, written, idx>>
        ELSE /\ log' = AppendLine(log, tail)
             /\ tail' = <<>>
             /\ written' = Append(written, [entry |-> entry, at |-> timestamp, row |-> queries[idx]])
             /\ idx' = idx + 1
    /\ fileExists' = TRUE
    /\ UNCHANGED <<host, toolVars, now, lpc, queries, timestamp, tickStartLen, outcome, calls,
                   waited, svcVars, readerVars>>

\* capture_and_log, lines 27-43: one pass of the for loop. The record and
\* its newline are one str given to one f.write (line 43); the text stays in
\* the file object's buffer until the with statement closes the file, which
\* hands it to the operating system in one write. The file therefore goes
\* from its old content to the content with the whole line added; a
\* KeyboardInterrupt inside the with block still runs the close.
AppendRecord ==
    /\ Idle
    /\ lpc = "append"
    /\ idx <= Len(queries)
    /\ LET entry == MakeEntry(timestamp, queries[idx]) IN
        /\ log' = AppendLine(log, JsonDumps(entry))
        /\ written' = Append(written, [entry |-> entry, at |-> timestamp, row |-> queries[idx]])
    /\ fileExists' = TRUE
    /\ idx' = idx + 1
    /\ UNCHANGED <<host, toolVars, now, lpc, queries, timestamp, tickStartLen, outcome, calls,
                   waited, svcVars, readerVars, tail>>

\* As AppendRaises, with a handler that re-raises: the loop ends there.
MutAppendRaises ==
    /\ Idle
    /\ lpc = "append"
    /\ idx <= Len(queries)
    /\ outcome' = "append_error"
    /\ calls' = calls
    /\ lpc' = "crashed"
    /\ ReturnFromCapture
    /\ UNCHANGED <<host, toolVars, now, fileVars, svcVars, readerVars>>

\* capture_and_log, lines 27-43, 47-48: the loop body raises for this record
\* (json.dumps a TypeError, open or write an OSError); the handler prints
\* the error and capture_and_log returns. A write that fails is taken to
\* have put nothing into the file.
AppendRaises ==
    /\ Idle
    /\ lpc = "append"
    /\ idx <= Len(queries)
    /\ outcome' = "append_error"
    /\ calls' = calls
    /\ lpc' = "sleep"
    /\ ReturnFromCapture
    /\ UNCHANGED <<host, toolVars, now, fileVars, svcVars, readerVars>>

\* capture_and_log, line 45: the for loop is over; print and return.
CaptureDone ==
    /\ Idle
    /\ lpc = "append"
    /\ idx > Len(queries)
    /\ outcome' = "ok"
    /\ calls' = calls
    /\ lpc' = "sleep"
    /\ ReturnFromCapture
    /\ UNCHANGED <<host, toolVars, now, fileVars, svcVars, readerVars>>

\* The capture interval in the unit of the waits.
IntervalMs == CAPTURE_INTERVAL_SECONDS * 1000

\* The instants of a wait at which something can happen: the lengths of the
\* two waits of the program.
WaitInstants == {ErrorWaitMs, IntervalMs}

\* Time passes while the loop waits (time.sleep, line 64; the service's
\* WaitForSingleObject, lines 66-69 and 79), up to the length of that wait.
\* The wait is short beside the clock's unit, so now is left alone.
WaitPasses ==
    /\ Idle
    /\ lpc \in {"sleep", "errwait"}
    /\ LET timeout == IF lpc = "errwait" THEN ErrorWaitMs ELSE IntervalMs
           later == {t \in WaitInstants : t > waited /\ t <= timeout}
       IN  /\ later # {}
           /\ waited' = CHOOSE t \in later : \A u \in later : t <= u
    /\ UNCHANGED <<host, toolVars, now, fileVars, lpc, queries, timestamp, idx, tickStartLen,
                   outcome, calls, svcVars, readerVars>>

\* As SleepDone, with the sleep of the service's error branch (one minute).
MutSleepDone ==
    /\ Idle
    /\ host = "standalone"
    /\ lpc = "sleep"
    /\ waited = ErrorWaitMs
    /\ lpc' = "loop"
    /\ UNCHANGED <<host, toolVars, now, fileVars, tickVars, svcVars, readerVars>>

\* main(), line 64: time.sleep(CAPTURE_INTERVAL_SECONDS) returns, the
\* interval after it was called.
SleepDone ==
    /\ Idle
    /\ host = "standalone"
    /\ lpc = "sleep"
    /\ waited = IntervalMs
    /\ lpc' = "loop"
    /\ UNCHANGED <<host, toolVars, now, fileVars, tickVars, svcVars, readerVars>>

\* Ctrl+C: the signal is noted; Python raises KeyboardInterrupt in the main
\* thread once the call in progress lets it.
Interrupt ==
    /\ Idle
    /\ host = "standalone"
    /\ ~sigint
    /\ lpc \notin {"stopped", "raised"}
    /\ sigint' = TRUE
    /\ UNCHANGED <<host, toolVars, now, fileVars, lpc, tickVars, running, stopEvent, spc,
                   readerVars>>

\* main(), lines 61-66: KeyboardInterrupt inside the try; it is no
\* Exception, so it passes capture_and_log's handler, and main() catches it.
KeyboardInterruptInLoop ==
    /\ Idle
    /\ host = "standalone"
    /\ sigint
    /\ lpc \in {"loop", "fetch", "stamp", "append", "sleep"}
    /\ sigint' = FALSE
    /\ lpc' = "stopped"
    /\ ReturnFromCapture
    /\ UNCHANGED <<host, toolVars, now, fileVars, outcome, calls, running, stopEvent, spc,
                   readerVars>>

\* main(), lines 51-59: KeyboardInterrupt before the try is entered
\* propagates out of main().
KeyboardInterruptAtStart ==
    /\ Idle
    /\ host = "standalone"
    /\ sigint
    /\ lpc = "start"
    /\ sigint' = FALSE
    /\ lpc' = "raised"
    /\ UNCHANGED <<host, toolVars, now, fileVars, tickVars, running, stopEvent, spc,
                   readerVars>>

\* ---------------------------------------------- query_history_service.py
\* SvcDoRun, lines 50-56: log the start message and call main().
SvcDoRun ==
    /\ Idle
    /\ host = "service"
    /\ lpc = "start"
    /\ lpc' = "loop"
    /\ UNCHANGED <<host, toolVars, now, fileVars, tickVars, svcVars, readerVars>>

\* As SvcLoop, with while True in place of while self.running.
MutSvcLoop ==
    /\ Idle
    /\ host = "service"
    /\ lpc = "loop"
    /\ lpc' = "fetch"
    /\ queries' = <<>>
    /\ idx' = 1
    /\ tickStartLen' = Len(log)
    /\ outcome' = "none"
    /\ calls' = 0
    /\ waited' = 0
    /\ UNCHANGED <<host, toolVars, now, fileVars, timestamp, svcVars, readerVars>>

\* main, lines 60-63: while self.running, and the call of capture_and_log.
SvcLoop ==
    /\ Idle
    /\ host = "service"
    /\ lpc = "loop"
    /\ IF running
       THEN /\ lpc' = "fetch"
            /\ queries' = <<>>
            /\ idx' = 1
            /\ tickStartLen' = Len(log)
            /\ outcome' = "none"
            /\ calls' = 0
            /\ waited' = 0
       ELSE /\ lpc' = "stopped"
            /\ UNCHANGED <<queries, idx, tickStartLen, outcome, calls, waited>>
    /\ UNCHANGED <<host, toolVars, now, fileVars, timestamp, svcVars, readerVars>>

\* main, lines 66-73: WaitForSingleObject returns WAIT_OBJECT_0, which
\* resets the auto-reset event (CreateEvent(None, 0, 0, None)); break.
WaitSignalled ==
    /\ Idle
    /\ host = "service"
    /\ lpc = "sleep"
    /\ stopEvent
    /\ stopEvent' = FALSE
    /\ lpc' = "stopped"
    /\ UNCHANGED <<host, toolVars, now, fileVars, tickVars, sigint, running, spc, readerVars>>

\* main, lines 66-73: the wait times out after the capture interval.
WaitTimeout ==
    /\ Idle
    /\ host = "service"
    /\ lpc = "sleep"
    /\ ~stopEvent
    /\ waited = IntervalMs
    /\ lpc' = "loop"
    /\ UNCHANGED <<host, toolVars, now, fileVars, tickVars, svcVars, readerVars>>

\* main, lines 75-77: an exception leaves capture_and_log (its own handler
\* raises while printing, in a host without a console); log the error.
CaptureEscapes ==
    /\ Idle
    /\ host = "service"
    /\ lpc = "sleep"
    /\ waited = 0
    /\ outcome' = "escaped"
    /\ calls' = calls
    /\ lpc' = "errwait"
    /\ UNCHANGED <<host, toolVars, now, fileVars, queries, timestamp, idx, tickStartLen,
                   waited, svcVars, readerVars>>

\* main, line 79: the one-minute wait on the same event ends, signalled
\* (which resets the event) or timed out; the result is not looked at.
ErrWaitSignalled ==
    /\ Idle
    /\ host = "service"
    /\ lpc = "errwait"
    /\ stopEvent
    /\ stopEvent' = FALSE
    /\ lpc' = "loop"
    /\ UNCHANGED <<host, toolVars, now, fileVars, tickVars, sigint, running, spc, readerVars>>

ErrWaitTimeout ==
    /\ Idle
    /\ host = "service"
    /\ lpc = "errwait"
    /\ ~stopEvent
    /\ waited = ErrorWaitMs
    /\ lpc' = "loop"
    /\ UNCHANGED <<host, toolVars, now, fileVars, tickVars, svcVars, readerVars>>

\* SvcStop, lines 44-45: report STOP_PENDING, then SetEvent(stop_event).
SvcStopSetEvent ==
    /\ Idle
    /\ host = "service"
    /\ spc = "idle"
    /\ stopEvent' = TRUE
    /\ spc' = "set"
    /\ UNCHANGED <<host, toolVars, now, fileVars, lpc, tickVars, sigint, running, readerVars>>

\* SvcStop, line 46: self.running = False.
SvcStopClearRunning ==
    /\ Idle
    /\ host = "service"
    /\ spc = "set"
    /\ running' = FALSE
    /\ spc' = "done"
    /\ UNCHANGED <<host, toolVars, now, fileVars, lpc, tickVars, sigint, stopEvent, readerVars>>

\* ------------------------------------------------ query_history_reader.py
\* Python's truth value of an optional str and of an optional number.
TruthyStr(o) == o # <<>> /\ o[1] # <<>>
TruthyNum(o) == o # <<>> /\ o[1] # 0

\* As CutoffTime, with the hours taken for clock units.
MutCutoffTime(t, hours_back) == t - hours_back

\* cutoff_time = datetime.utcnow() - timedelta(hours=hours_back)
CutoffTime(t, hours_back) == t - hours_back * UnitsPerHour

\* As Keep, with <= in the CPU test.
MutKeep(entry, cutoff, p) ==
    /\ ~(FromIsoFormat(entry.captured_at) < cutoff)
    /\ ~(/\ TruthyStr(p.search_text)
         /\ ~Contains(Lower(entry.query_text), Lower(p.search_text[1])))
    /\ ~(/\ TruthyNum(p.min_cpu_ms)
         /\ entry.cpu_time_ms <= p.min_cpu_ms[1])

\* The three tests of the loop body, lines 30-39: TRUE when none of them
\* says continue.
Keep(entry, cutoff, p) ==
    /\ ~(FromIsoFormat(entry.captured_at) < cutoff)
    /\ ~(/\ TruthyStr(p.search_text)
         /\ ~Contains(Lower(entry.query_text), Lower(p.search_text[1])))
    /\ ~(/\ TruthyNum(p.min_cpu_ms)
         /\ entry.cpu_time_ms < p.min_cpu_ms[1])

\* As Scan, with a line that does not parse passed over (skip and warn).
RECURSIVE MutScan(_, _, _)
MutScan(lines, cutoff, p) ==
    IF lines = <<>> THEN [raised |-> FALSE, queries |-> <<>>]
    ELSE IF ~JsonValid(Head(lines)) THEN MutScan(Tail(lines), cutoff, p)
    ELSE LET entry == JsonLoads(Head(lines))
             rest == MutScan(Tail(lines), cutoff, p)
         IN  IF Keep(entry, cutoff, p)
             THEN [raised |-> FALSE, queries |-> <<entry>> \o rest.queries]
             ELSE rest

\* The for loop over the file's lines, lines 26-41: json.loads raises on a
\* line it cannot parse, and nothing is returned then.
RECURSIVE Scan(_, _, _)
Scan(lines, cutoff, p) ==
    IF lines = <<>> THEN [raised |-> FALSE, queries |-> <<>>]
    ELSE IF ~JsonValid(Head(lines)) THEN [raised |-> TRUE, queries |-> <<>>]
    ELSE LET entry == JsonLoads(Head(lines))
             rest == Scan(Tail(lines), cutoff, p)
         IN  IF rest.raised THEN rest
             ELSE IF Keep(entry, cutoff, p)
                  THEN [raised |-> FALSE, queries |-> <<entry>> \o rest.queries]
                  ELSE rest

\* The scan of the file as it is: what follows the last newline is the
\* file's last line for the loop, and a JSON text cut short does not parse.
ScanFile(cutoff, p) ==
    LET r == Scan(log, cutoff, p)
    IN  IF ~r.raised /\ tail # <<>> THEN [raised |-> TRUE, queries |-> <<>>] ELSE r

\* The arguments the reader is called with.
HoursBackValues == {0, 1}
SearchTexts == {<<>>, << <<>> >>, << <<"s", "E">> >>}
MinCpuValues == {<<>>, <<0>>, <<100>>}
ReaderParams ==
    [hours_back : HoursBackValues, search_text : SearchTexts, min_cpu_ms : MinCpuValues]

\* As ReadQueryHistory, without the except FileNotFoundError clause: open's
\* error leaves the function.
MutReadQueryHistory ==
    /\ rpc = "idle"
    /\ \E p \in ReaderParams :
        /\ rparams' = p
        /\ IF ~fileExists
           THEN /\ result' = <<>>
                /\ rpc' = "raised"
           ELSE LET r == ScanFile(CutoffTime(now, p.hours_back), p) IN
                /\ result' = r.queries
                /\ rpc' = IF r.raised THEN "raised" ELSE "returned"
    /\ UNCHANGED <<host, toolVars, now, fileVars, lpc, tickVars, svcVars, again, report, scanVars>>

\* read_query_history(hours_back, search_text, min_cpu_ms), lines 21-46:
\* open(LOG_FILE, "r") raises FileNotFoundError when the file is missing, and
\* the handler (lines 44-46) prints and returns []; mode "r" creates nothing.
ReadQueryHistory ==
    /\ rpc = "idle"
    /\ \E p \in ReaderParams :
        /\ rparams' = p
        /\ IF ~fileExists
           THEN /\ result' = <<>>
                /\ rpc' = "returned"
           ELSE LET r == ScanFile(CutoffTime(now, p.hours_back), p) IN
                /\ result' = r.queries
                /\ rpc' = IF r.raised THEN "raised" ELSE "returned"
    /\ UNCHANGED <<host, toolVars, now, fileVars, lpc, tickVars, svcVars, again, report, scanVars>>

\* The clock units that pass between a call and its repetition.
ElapsedValues == {0, 1}

\* As ReadAgain, with the list kept from one call to the next (queries as a
\* default argument in place of line 22's fresh list).
MutReadAgain ==
    /\ rpc = "returned"
    /\ \E d \in ElapsedValues :
        /\ now + d <= MaxTime
        /\ now' = now + d
        /\ again' = IF ~fileExists THEN result
                     ELSE result \o ScanFile(CutoffTime(now', rparams.hours_back),
                                             rparams).queries
    /\ rpc' = "reread"
    /\ UNCHANGED <<host, toolVars, fileVars, lpc, tickVars, svcVars, rparams, result, report,
                   scanVars>>

\* The caller calls read_query_history again with the same arguments, at once
\* or after the clock has moved on; the log file is as it was. Line 21 takes
\* the cutoff from the clock of this call, line 22 starts from a fresh list.
ReadAgain ==
    /\ rpc = "returned"
    /\ \E d \in ElapsedValues :
        /\ now + d <= MaxTime
        /\ now' = now + d
        /\ again' = IF ~fileExists THEN <<>>
                     ELSE ScanFile(CutoffTime(now', rparams.hours_back),
                                   rparams).queries
    /\ rpc' = "reread"
    /\ UNCHANGED <<host, toolVars, fileVars, lpc, tickVars, svcVars, rparams, result, report,
                   scanVars>>

\* The arguments of the calls that are followed line by line.
ScanParams ==
    {[hours_back |-> 1, search_text |-> <<>>, min_cpu_ms |-> <<>>],
     [hours_back |-> 0, search_text |-> << <<"s", "E">> >>, min_cpu_ms |-> <<>>],
     [hours_back |-> 1, search_text |-> <<>>, min_cpu_ms |-> <<100>>]}

\* read_query_history, lines 21-25, followed step by step: the cutoff is
\* computed, then the file is opened; a missing file ends the call with [].
ScanOpen ==
    /\ rpc = "idle"
    /\ \E p \in ScanParams :
        /\ rparams' = p
        /\ rcut' = CutoffTime(now, p.hours_back)
    /\ result' = <<>>
    /\ rpos' = 0
    /\ ropenLen' = Len(log)
    /\ rpc' = IF fileExists THEN "scan" ELSE "returned"
    /\ UNCHANGED <<host, toolVars, now, fileVars, lpc, tickVars, svcVars, again, report>>

\* As ScanLine, with the cutoff taken from the clock at every line.
MutScanLine ==
    /\ rpc = "scan"
    /\ rpos < Len(log)
    /\ LET line == log[rpos + 1] IN
        IF ~JsonValid(line)
        THEN /\ rpc' = "raised"
             /\ result' = <<>>
        ELSE /\ rpc' = "scan"
             /\ result' = IF Keep(JsonLoads(line), CutoffTime(now, rparams.hours_back),
                                  rparams)
                           THEN Append(result, JsonLoads(line))
                           ELSE result
    /\ rpos' = rpos + 1
    /\ UNCHANGED <<host, toolVars, now, fileVars, lpc, tickVars, svcVars, rparams,
                   again, report, rcut, ropenLen>>

\* Lines 26-41: the for loop takes the next line the file holds by now.
ScanLine ==
    /\ rpc = "scan"
    /\ rpos < Len(log)
    /\ LET line == log[rpos + 1] IN
        IF ~JsonValid(line)
        THEN /\ rpc' = "raised"
             /\ result' = <<>>
        ELSE /\ rpc' = "scan"
             /\ result' = IF Keep(JsonLoads(line), rcut, rparams)
                           THEN Append(result, JsonLoads(line))
                           ELSE result
    /\ rpos' = rpos + 1
    /\ UNCHANGED <<host, toolVars, now, fileVars, lpc, tickVars, svcVars, rparams,
                   again, report, rcut, ropenLen>>

\* Lines 26, 43: the file has no further line; what follows its last
\* newline, if anything, is a last line that does not parse. Otherwise the
\* loop ends and queries is returned.
ScanEof ==
    /\ rpc = "scan"
    /\ rpos = Len(log)
    /\ IF tail # <<>>
       THEN /\ rpc' = "raised"
            /\ result' = <<>>
       ELSE /\ rpc' = "returned"
            /\ result' = result
    /\ UNCHANGED <<host, toolVars, now, fileVars, lpc, tickVars, svcVars, rparams,
                   again, report, scanVars>>

\* A line as it is after a stray quote got into its query_text: a text
\* json.loads rejects.
Damaged(line) == [line EXCEPT ![Len(line)].text = Append(@, "\"")]

\* Something other than this system (an editor, a faulty copy) damages one
\* line of the log file; the reader's json.loads (line 27) meets it later.
Corrupt ==
    /\ Idle
    /\ \A i \in 1..Len(log) : JsonValid(log[i])
    /\ \E i \in 1..Len(log) : log' = [log EXCEPT ![i] = Damaged(log[i])]
    /\ UNCHANGED <<host, toolVars, now, fileExists, tail, written, lpc, tickVars,
                   svcVars, readerVars>>

\* The caller takes the result (or the exception).
ReaderReturn ==
    /\ rpc \in {"returned", "raised", "reread", "summarized"}
    /\ rpc' = "idle"
    /\ rparams' = NoParams
    /\ result' = <<>>
    /\ again' = <<>>
    /\ report' = NoReport
    /\ rpos' = 0
    /\ rcut' = 0
    /\ ropenLen' = 0
    /\ UNCHANGED <<host, toolVars, now, fileVars, lpc, tickVars, svcVars>>

\* ------------------------------- query_history_reader.summarize_queries
\* As GroupKey, with the whole text for key.
MutGroupKey(q) == q.query_text

\* Line 57: key = q["query_text"][:100].
GroupKey(q) == Truncate(q.query_text, SummaryPrefix)

\* Lines 55-58: query_groups[key].append(q). The dict keeps its keys in the
\* order of their first insertion; it is the sequence of its items here.
AddToGroups(groups, q) ==
    LET key == GroupKey(q) IN
    IF \E i \in 1..Len(groups) : groups[i].key = key
    THEN LET i == CHOOSE j \in 1..Len(groups) : groups[j].key = key
         IN  [groups EXCEPT ![i].executions = Append(@, q)]
    ELSE Append(groups, [key |-> key, executions |-> <<q>>])

RECURSIVE QueryGroups(_, _)
QueryGroups(groups, qs) ==
    IF qs = <<>> THEN groups
    ELSE QueryGroups(AddToGroups(groups, Head(qs)), Tail(qs))

\* As InsertBySize, with an item put before the items of its own size.
MutInsertBySize(sorted, item) ==
    LET earlier == {i \in 1..Len(sorted) :
                      Len(sorted[i].executions) > Len(item.executions)}
        n == Cardinality(earlier)
    IN  SubSeq(sorted, 1, n) \o <<item>> \o SubSeq(sorted, n + 1, Len(sorted))

\* Line 66: sorted(..., key=lambda x: len(x[1]), reverse=True) is stable:
\* an item comes after every earlier item that is not smaller.
InsertBySize(sorted, item) ==
    LET earlier == {i \in 1..Len(sorted) :
                      Len(sorted[i].executions) >= Len(item.executions)}
        n == Cardinality(earlier)
    IN  SubSeq(sorted, 1, n) \o <<item>> \o SubSeq(sorted, n + 1, Len(sorted))

RECURSIVE SortedGroups(_, _)
SortedGroups(sorted, items) ==
    IF items = <<>> THEN sorted
    ELSE SortedGroups(InsertBySize(sorted, Head(items)), Tail(items))

\* Line 69: sum(e["cpu_time_ms"] for e in executions).
RECURSIVE TotalCpu(_)
TotalCpu(executions) ==
    IF executions = <<>> THEN 0
    ELSE Head(executions).cpu_time_ms + TotalCpu(Tail(executions))

\* Lines 70, 72: f"{total_cpu / len(executions):.0f}" prints the quotient
\* rounded to a whole number, a half going to the even neighbour.
FormatF0(num, den) ==
    LET q == num \div den
        r == num % den
    IN  IF 2 * r < den THEN q
        ELSE IF 2 * r > den THEN q + 1
        ELSE IF q % 2 = 0 THEN q ELSE q + 1

\* Lines 68-73: the lines printed for one group.
GroupLine(item) ==
    [pattern    |-> item.key,
     executions |-> Len(item.executions),
     avg_cpu    |-> FormatF0(TotalCpu(item.executions), Len(item.executions)),
     total_cpu  |-> TotalCpu(item.executions)]

\* summarize_queries(queries), lines 48-73, for the list qs.
SummarizeQueries(qs) ==
    IF qs = <<>> THEN NoReport
    ELSE LET query_groups == QueryGroups(<<>>, qs)
             sorted_groups == SortedGroups(<<>>, query_groups)
             top == Truncate(sorted_groups, TopGroups)
         IN  [found    |-> TRUE,
              total    |-> Len(qs),
              patterns |-> Len(query_groups),
              top      |-> [i \in 1..Len(top) |-> GroupLine(top[i])]]

\* As Summarize, with the list sorted in place (queries.sort) for the report.
MutSummarize ==
    /\ rpc = "returned"
    /\ report' = SummarizeQueries(result)
    /\ result' = [i \in 1..Len(result) |-> result[Len(result) + 1 - i]]
    /\ rpc' = "summarized"
    /\ UNCHANGED <<host, toolVars, now, fileVars, lpc, tickVars, svcVars, rparams, again,
                   scanVars>>

\* main(), lines 82-83: summarize_queries is given the list read.
Summarize ==
    /\ rpc = "returned"
    /\ report' = SummarizeQueries(result)
    /\ rpc' = "summarized"
    /\ UNCHANGED <<host, toolVars, now, fileVars, lpc, tickVars, svcVars, rparams, result, again,
                   scanVars>>

\* The lists summarize_queries is given: records of one tick as the reader
\* returns them. ShortText(k) are texts shorter than the prefix, LongText(c)
\* is longer than the prefix by its last character c, and PrefixText is
\* their common prefix.
ShortText(k) == [i \in 1..k |-> "q"]
PrefixText == [i \in 1..SummaryPrefix |-> "p"]
LongText(c) == Append(PrefixText, c)
SummaryRecord(text, cpu) == MakeEntry(0, <<1, 0, 0, cpu, 0, 0, 0, text>>)
BaseRecords(g) == [k \in 1..g |-> SummaryRecord(ShortText(k), 50)]
ExtraRecords ==
    {SummaryRecord(ShortText(1), 55), SummaryRecord(ShortText(MaxGroups), 50),
     SummaryRecord(PrefixText, 50), SummaryRecord(LongText("a"), 50),
     SummaryRecord(LongText("b"), 55)}
ExtraLists == UNION {[1..n -> ExtraRecords] : n \in 0..MaxExtra}
SummaryInputs ==
    UNION {{SubSeq(x, 1, n) \o BaseRecords(g) \o SubSeq(x, n + 1, Len(x)) :
               n \in 0..Len(x), g \in 0..MaxGroups} : x \in ExtraLists}

\* A caller holds a list of records and is about to summarize it.
SummaryInit ==
    /\ host = "standalone"
    /\ now = 0
    /\ fileExists = FALSE
    /\ log = <<>>
    /\ tail = <<>>
    /\ written = <<>>
    /\ lpc = "start"
    /\ queries = <<>>
    /\ timestamp = 0
    /\ idx = 1
    /\ tickStartLen = 0
    /\ outcome = "none"
    /\ calls = 0
    /\ waited = 0
    /\ sigint = FALSE
    /\ running = TRUE
    /\ stopEvent = FALSE
    /\ spc = "idle"
    /\ rpc = "returned"
    /\ rparams = NoParams
    /\ result \in SummaryInputs
    /\ again = <<>>
    /\ report = NoReport
    /\ rpos = 0
    /\ rcut = 0
    /\ ropenLen = 0
    /\ tpc = "idle"
    /\ dbRows = <<>>
    /\ tables = <<>>
    /\ limit = 10
    /\ query = NoQuery
    /\ NoCalls

\* ------------------------------------ fabric_rti_mcp/tools/lakehouse_sql_tool.py
\* The values a cell of a result row can hold, by Python type. A float
\* carries its value in tenths; nan and inf are floats without one.
PyNone == [t |-> "none", n |-> 0, s |-> <<>>]
PyInt(k) == [t |-> "int", n |-> k, s |-> <<>>]
PyBool(k) == [t |-> "bool", n |-> k, s |-> <<>>]
PyFloat(tenths) == [t |-> "float", n |-> tenths, s |-> <<>>]
PyNan == [t |-> "float_nan", n |-> 0, s |-> <<>>]
PyInf == [t |-> "float_inf", n |-> 0, s |-> <<>>]
PyStr(chars) == [t |-> "str", n |-> 0, s |-> chars]
PyDecimal(k) == [t |-> "decimal", n |-> k, s |-> <<>>]

DigitChars == <<"0", "1", "2", "3", "4", "5", "6", "7", "8", "9">>
IsDigit(c) == \E d \in 1..10 : DigitChars[d] = c
DigitValue(c) == (CHOOSE d \in 1..10 : DigitChars[d] = c) - 1

\* str(k) and f"{k}" for an int.
RECURSIVE NatStr(_)
NatStr(k) ==
    IF k < 10 THEN <<DigitChars[k + 1]>>
    ELSE Append(NatStr(k \div 10), DigitChars[(k % 10) + 1])
IntStr(k) == IF k < 0 THEN <<"-">> \o NatStr(-k) ELSE NatStr(k)

\* str(v) for a cell.
Str(v) ==
    CASE v.t = "str" -> v.s
      [] v.t = "int" -> IntStr(v.n)
      [] OTHER -> <<"N", "o", "n", "e">>

\* int(x) for a float: towards zero.
TruncTenths(tenths) ==
    IF tenths >= 0 THEN tenths \div 10 ELSE -((-tenths) \div 10)

\* str.strip(): the blanks at both ends removed.
RECURSIVE LStrip(_)
LStrip(chars) ==
    IF chars # <<>> /\ Head(chars) = " " THEN LStrip(Tail(chars)) ELSE chars
RECURSIVE RStrip(_)
RStrip(chars) ==
    IF chars # <<>> /\ chars[Len(chars)] = " "
    THEN RStrip(SubSeq(chars, 1, Len(chars) - 1)) ELSE chars
Strip(chars) == RStrip(LStrip(chars))

\* The value of a run of digits.
RECURSIVE DigitsValue(_)
DigitsValue(chars) ==
    IF chars = <<>> THEN 0
    ELSE 10 * DigitsValue(SubSeq(chars, 1, Len(chars) - 1))
           + DigitValue(chars[Len(chars)])

\* float(s) for a str: blanks around are ignored; digits with an optional
\* sign and an optional fraction, or nan, are floats; anything else raises
\* ValueError (ok = FALSE).
Float(chars) ==
    LET body == Strip(chars)
        neg == body # <<>> /\ Head(body) = "-"
        num == IF neg THEN Tail(body) ELSE body
        dots == {i \in 1..Len(num) : num[i] = "."}
        whole == IF dots = {} THEN num
                 ELSE SubSeq(num, 1, (CHOOSE i \in dots : TRUE) - 1)
        frac == IF dots = {} THEN <<>>
                ELSE SubSeq(num, (CHOOSE i \in dots : TRUE) + 1, Len(num))
        wellFormed ==
            /\ Cardinality(dots) <= 1
            /\ whole \o frac # <<>>
            /\ \A i \in 1..Len(whole) : IsDigit(whole[i])
            /\ \A i \in 1..Len(frac) : IsDigit(frac[i])
        tenths == 10 * DigitsValue(whole)
                    + (IF frac = <<>> THEN 0 ELSE DigitValue(frac[1]))
    IN  IF body = <<"n", "a", "n">> THEN [ok |-> TRUE, value |-> PyNan]
        ELSE IF wellFormed
             THEN [ok |-> TRUE, value |-> PyFloat(IF neg THEN -tenths ELSE tenths)]
             ELSE [ok |-> FALSE, value |-> PyNone]

\* lakehouse_sql_query, lines 363-367: every None of a fetched row becomes 0.
SanitizeTuple(row) == [i \in 1..Len(row) |-> IF row[i] = PyNone THEN PyInt(0) ELSE row[i]]
LakehouseSqlQuery(rows) == [i \in 1..Len(rows) |-> SanitizeTuple(rows[i])]

\* lakehouse_list_tables_safe, lines 620-633: the None test and the try
\* block; an int() or float() that raises leaves 0.
CoerceRowCount(v) ==
    CASE v.t = "none" -> PyInt(0)
      [] v.t = "bool" -> PyInt(v.n)
      [] v.t = "int" -> PyInt(v.n)
      [] v.t = "float" -> PyInt(TruncTenths(v.n))
      [] v.t \in {"float_nan", "float_inf"} -> PyInt(0)
      [] v.t = "str" ->
            IF Strip(v.s) = <<>> THEN PyInt(0)
            ELSE LET f == Float(v.s)
                 IN  IF f.ok /\ f.value.t = "float"
                     THEN PyInt(TruncTenths(f.value.n))
                     ELSE PyInt(0)
      [] OTHER -> PyInt(0)

\* Lines 635-636 and 641-643: whatever is not an int becomes 0.
FinalCheck(v) == IF v.t = "none" \/ v.t \notin {"int", "bool"} THEN PyInt(0) ELSE v

\* Lines 615-637: the tuple made of one row.
SanitizeRow(row) ==
    <<(IF row[1] # PyNone THEN Str(row[1]) ELSE <<"U", "n", "k", "n", "o", "w", "n">>),
      (IF row[2] # PyNone THEN Str(row[2]) ELSE <<"U", "n", "k", "n", "o", "w", "n">>),
      FinalCheck(CoerceRowCount(row[3]))>>

\* As Sanitized, with the rows whose count is no number passed over.
MutSanitized(results) ==
    LET kept == SelectSeq(results, LAMBDA row : row[3].t \in {"int", "bool", "float"})
    IN  [i \in 1..Len(kept) |-> SanitizeRow(kept[i])]

\* Lines 614-637: the first loop.
Sanitized(results) == [i \in 1..Len(results) |-> SanitizeRow(results[i])]

\* Lines 639-644: the second loop.
ReallyFinal(sanitized) ==
    [i \in 1..Len(sanitized) |->
        <<sanitized[i][1], sanitized[i][2], FinalCheck(sanitized[i][3])>>]

\* lakehouse_list_tables_safe(), lines 593-647, for the rows fetched.
LakehouseListTablesSafe(rows) == ReallyFinal(Sanitized(LakehouseSqlQuery(rows)))

\* The rows the listing query can deliver.
RowCounts ==
    {PyNone, PyInt(0), PyInt(42), PyBool(1), PyFloat(39), PyFloat(-25), PyNan,
     PyInf, PyStr(<<"1", "2">>), PyStr(<<"3", ".", "9">>), PyStr(<<" ", "7", " ">>),
     PyStr(<<>>), PyStr(<<" ">>), PyStr(<<"a", "b", "c">>), PyStr(<<"n", "a", "n">>),
     PyDecimal(5)}
FetchedRow ==
    {<<sch, PyStr(<<"t">>), rc>> : sch \in {PyStr(<<"d", "b", "o">>), PyNone},
                                   rc \in RowCounts}
FetchedRows == UNION {[1..n -> FetchedRow] : n \in 0..MaxRows}

\* A caller (the MCP tool registered at lines 69-73) calls
\* lakehouse_list_tables_safe and the query delivers some rows.
ListTablesSafe ==
    /\ tpc = "idle"
    /\ \E rows \in FetchedRows :
        /\ dbRows' = rows
        /\ tables' = LakehouseListTablesSafe(rows)
    /\ tpc' = "listed"
    /\ UNCHANGED <<host, now, fileVars, lpc, tickVars, svcVars, readerVars,
                   limit, query, callVars>>

\* As SampleLimit, with max for min.
MutSampleLimit(l) == IF l >= SampleMax THEN l ELSE SampleMax

\* Line 488: limit = min(limit, 1000).
SampleLimit(l) == Min(l, SampleMax)

\* Lines 490-493: the f-string of the query.
SampleQuery(schema_name, table_name, l) ==
    [top |-> IntStr(SampleLimit(l)), schema |-> schema_name, table |-> table_name]

\* The limits lakehouse_sample_table is called with.
LimitValues == {-5, 0, 1, 10, 999, 1000, 1001, 5000}

\* lakehouse_sample_table(schema_name, table_name, limit), lines 477-494,
\* up to the query it hands to lakehouse_sql_query.
SampleTable ==
    /\ tpc = "idle"
    /\ \E l \in LimitValues :
        /\ limit' = l
        /\ query' = SampleQuery(<<"d", "b", "o">>, <<"t">>, l)
    /\ tpc' = "sampled"
    /\ UNCHANGED <<host, now, fileVars, lpc, tickVars, svcVars, readerVars,
                   dbRows, tables, callVars>>

\* The caller takes the tool's result.
ToolReturn ==
    /\ tpc \in {"listed", "sampled", "returned", "raised"}
    /\ tpc' = "idle"
    /\ dbRows' = <<>>
    /\ tables' = <<>>
    /\ limit' = 10
    /\ query' = NoQuery
    /\ arg' = [fn |-> "none"]
    /\ ret' = [kind |-> "none"]
    /\ UNCHANGED <<host, now, fileVars, lpc, tickVars, svcVars, readerVars,
                   environ, config, conns>>

\* ------------------------- lakehouse_sql_tool.py: settings, connections
\* What the test script and the process around it set in os.environ.
EnvironValues ==
    [FABRIC_SQL_ENDPOINT |-> {"e1", "e2"}, FABRIC_LAKEHOUSE_NAME |-> {"Starbase"},
     FABRIC_SEMANTIC_MODEL_CONNECTION |-> {"powerbi"}]

\* os.environ[k] = v, between two calls.
SetEnviron ==
    /\ tpc = "idle"
    /\ \E k \in DOMAIN EnvironValues :
        \E v \in EnvironValues[k] :
            /\ environ[k] # Set(v)
            /\ environ' = [environ EXCEPT ![k] = Set(v)]
    /\ UNCHANGED <<host, now, fileVars, lpc, tickVars, svcVars, readerVars, tpc, listVars,
                   config, conns, arg, ret>>

\* Lines 156-159: the first import runs the module body, which reads the
\* three settings with os.getenv; a later import finds the module loaded.
ImportModule ==
    /\ tpc = "idle"
    /\ ~config.imported
    /\ config' = [imported                  |-> TRUE,
                  SQL_ENDPOINT              |-> environ.FABRIC_SQL_ENDPOINT,
                  LAKEHOUSE_NAME            |-> environ.FABRIC_LAKEHOUSE_NAME,
                  SEMANTIC_MODEL_CONNECTION |-> environ.FABRIC_SEMANTIC_MODEL_CONNECTION]
    /\ UNCHANGED <<host, now, fileVars, lpc, tickVars, svcVars, readerVars, tpc, listVars,
                   environ, conns, arg, ret>>

\* validate_config: whether it returns (it raises RuntimeError otherwise).
ValidateConfig ==
    /\ config.SQL_ENDPOINT # Unset
    /\ config.LAKEHOUSE_NAME # Unset
    /\ config.SEMANTIC_MODEL_CONNECTION # Unset

\* As ConnStr, with the settings read from os.environ at the call.
MutConnStr ==
    [Server |-> environ.FABRIC_SQL_ENDPOINT, Database |-> environ.FABRIC_LAKEHOUSE_NAME]

\* _get_connection, lines 195-206: the server and the database of conn_str.
ConnStr == [Server |-> config.SQL_ENDPOINT, Database |-> config.LAKEHOUSE_NAME]

\* The functions that open a connection.
LakehouseFunctions ==
    {"lakehouse_sql_query", "lakehouse_describe_table", "lakehouse_list_tables"}

\* A caller calls one of the functions; lakehouse_sql_query takes a
\* timeout, 30 is its default, which the other two leave in place.
CallLakehouse ==
    /\ tpc = "idle"
    /\ config.imported
    /\ \E fn \in LakehouseFunctions, timeout \in {30, -1} :
        /\ fn # "lakehouse_sql_query" => timeout = 30
        /\ arg' = [fn |-> fn, timeout |-> timeout, conn |-> Unset, rows |-> <<>>,
                   dbError |-> FALSE]
    /\ tpc' = "connect"
    /\ UNCHANGED <<host, now, fileVars, lpc, tickVars, svcVars, readerVars, listVars,
                   environ, config, conns, ret>>

\* _get_connection: None when validate_config raises or pyodbc.connect
\* raises, the new connection otherwise (lines 356 and 468 take it).
GetConnection ==
    /\ tpc = "connect"
    /\ \/ /\ ValidateConfig
          /\ conns < MaxConns
          /\ arg' = [arg EXCEPT !.conn = Set(ConnStr)]
          /\ conns' = conns + 1
       \/ /\ UNCHANGED <<arg, conns>>
    /\ tpc' = IF arg.fn = "lakehouse_describe_table" THEN "execute" ELSE "settimeout"
    /\ UNCHANGED <<host, now, fileVars, lpc, tickVars, svcVars, readerVars, listVars,
                   environ, config, ret>>

\* As After, had lakehouse_list_tables no try around the query.
MutAfter(fn, kind) ==
    IF kind = "raise" THEN "raised"
    ELSE IF fn = "lakehouse_list_tables" THEN "listing" ELSE "returned"

\* Where a call goes when lakehouse_sql_query or lakehouse_describe_table
\* ends: to its caller, or into lakehouse_list_tables (line 397).
After(fn, kind) ==
    IF fn = "lakehouse_list_tables" THEN "listing"
    ELSE IF kind = "raise" THEN "raised" ELSE "returned"

\* lakehouse_sql_query, line 357, before the try: conn.timeout = timeout
\* raises AttributeError on None, and pyodbc raises ValueError for a
\* negative timeout.
SetTimeout ==
    /\ tpc = "settimeout"
    /\ IF arg.conn = Unset
       THEN /\ ret' = [kind |-> "raise", val |-> "AttributeError"]
            /\ tpc' = After(arg.fn, "raise")
       ELSE IF arg.timeout < 0
            THEN /\ ret' = [kind |-> "raise", val |-> "ValueError"]
                 /\ tpc' = After(arg.fn, "raise")
            ELSE /\ tpc' = "execute"
                 /\ ret' = ret
    /\ UNCHANGED <<host, now, fileVars, lpc, tickVars, svcVars, readerVars, listVars,
                   environ, config, conns, arg>>

\* The rows a query of this part of the model can deliver.
ListedRows ==
    {<<PyStr(<<"d", "b", "o">>), PyStr(<<"t">>), rc>> :
        rc \in {PyNone, PyInt(42), PyNan, PyStr(<<"3", ".", "9">>), PyStr(<<" ", "7", " ">>)}}

\* Lines 358-372 and 469-472, the body of the try: None has no cursor();
\* the statements raise, or deliver rows, which lakehouse_sql_query
\* sanitizes and lakehouse_describe_table returns as they are.
Execute ==
    /\ tpc = "execute"
    /\ IF arg.conn = Unset
       THEN /\ ret' = [kind |-> "raise", val |-> "AttributeError"]
            /\ arg' = arg
       ELSE \/ /\ ret' = [kind |-> "raise", val |-> "pyodbc.Error"]
               /\ arg' = [arg EXCEPT !.dbError = TRUE]
            \/ \E rows \in UNION {[1..n -> ListedRows] : n \in 0..MaxRows} :
                  /\ arg' = [arg EXCEPT !.rows = rows]
                  /\ ret' = [kind |-> "value",
                             val |-> IF arg.fn = "lakehouse_describe_table"
                                     THEN rows ELSE LakehouseSqlQuery(rows)]
    /\ tpc' = "close"
    /\ UNCHANGED <<host, now, fileVars, lpc, tickVars, svcVars, readerVars, listVars,
                   environ, config, conns>>

\* Lines 373-374 and 473-474, finally: conn.close(); on None it raises
\* AttributeError in place of whatever the try had come to.
CloseConnection ==
    /\ tpc = "close"
    /\ IF arg.conn = Unset
       THEN /\ ret' = [kind |-> "raise", val |-> "AttributeError"]
            /\ conns' = conns
       ELSE /\ ret' = ret
            /\ conns' = conns - 1
    /\ tpc' = After(arg.fn, ret'.kind)
    /\ UNCHANGED <<host, now, fileVars, lpc, tickVars, svcVars, readerVars, listVars,
                   environ, config, arg>>

\* lakehouse_list_tables, lines 403-406: int(row[2]), 0 for None and when
\* int() raises. int() of a str ignores the blanks around it and takes an
\* optional sign and digits; of anything else it raises ValueError.
RowCountOf(v) ==
    LET body == Strip(v.s)
        neg == body # <<>> /\ Head(body) = "-"
        num == IF neg THEN Tail(body) ELSE body
    IN  CASE v.t = "none" -> PyInt(0)
          [] v.t \in {"bool", "int", "decimal"} -> PyInt(v.n)
          [] v.t = "float" -> PyInt(TruncTenths(v.n))
          [] v.t = "str" /\ num # <<>> /\ \A i \in 1..Len(num) : IsDigit(num[i]) ->
                PyInt(IF neg THEN -DigitsValue(num) ELSE DigitsValue(num))
          [] OTHER -> PyInt(0)

\* lakehouse_list_tables, lines 396-413: the query has ended; an error of
\* it is caught and gives [], its rows give one tuple each. What follows
\* line 413 is never reached.
ListTablesFinish ==
    /\ tpc = "listing"
    /\ ret' = [kind |-> "value",
               val |-> IF ret.kind = "raise" THEN <<>>
                       ELSE [i \in 1..Len(ret.val) |->
                               <<(IF ret.val[i][1] # PyNone THEN Str(ret.val[i][1])
                                  ELSE <<"U", "n", "k", "n", "o", "w", "n">>),
                                 (IF ret.val[i][2] # PyNone THEN Str(ret.val[i][2])
                                  ELSE <<"U", "n", "k", "n", "o", "w", "n">>),
                                 RowCountOf(ret.val[i][3])>>]]
    /\ tpc' = "returned"
    /\ UNCHANGED <<host, now, fileVars, lpc, tickVars, svcVars, readerVars, listVars,
                   environ, config, conns, arg>>

\* ------------------- query_suggestions_service.py and the MCP tools
\* The results of the table query of get_exploration_path: one row per
\* table name (the query groups by it), with the sum of its partitions'
\* rows, NULL for a table without partitions.
TableLists ==
    UNION {[1..n -> {PyNone, PyInt(999), PyInt(1000), PyInt(9999), PyInt(10000)}] :
              n \in 0..MaxTables}
TableRows(counts) ==
    [i \in 1..Len(counts) |-> <<PyStr(<<"t">> \o IntStr(i)), counts[i]>>]

\* As Classes, with the medium tables taken for those that are not small.
MutClasses(tbls) ==
    LET Small(t) == t[2].n < 1000
        Large(t) == t[2].n >= 10000
        NotSmall(t) == ~Small(t)
    IN  [small |-> SelectSeq(tbls, Small), large |-> SelectSeq(tbls, Large),
         medium |-> SelectSeq(tbls, NotSmall)]

\* get_exploration_path, lines 197-199: the three lists; (t[1] or 0) is
\* the count, and a table is medium when the other lists do not hold it.
Classes(tbls) ==
    LET Small(t) == t[2].n < 1000
        Large(t) == t[2].n >= 10000
        small == SelectSeq(tbls, Small)
        large == SelectSeq(tbls, Large)
        Medium(t) == /\ \A i \in 1..Len(small) : small[i] # t
                     /\ \A i \in 1..Len(large) : large[i] # t
    IN  [small |-> small, large |-> large, medium |-> SelectSeq(tbls, Medium)]

\* get_exploration_path, lines 188-230, for the rows the database gave:
\* lakehouse_sql_query sanitizes them; without rows the dict holds a
\* recommendation, else the count and the names of the first three tables
\* of each list.
ExplorationPath(rows) ==
    LET tbls == LakehouseSqlQuery(rows)
        First3(list) == [i \in 1..Min(Len(list), 3) |-> list[i][1].s]
    IN  IF tbls = <<>>
        THEN [recommendation |-> TRUE, total_tables |-> 0, exploration_steps |-> <<>>]
        ELSE [recommendation |-> FALSE,
              total_tables |-> Len(tbls),
              exploration_steps |-> <<First3(Classes(tbls).small),
                                      First3(Classes(tbls).medium),
                                      First3(Classes(tbls).large)>>]

\* What the service function behind a tool comes to: it raises (no
\* connection, a failed request, a missing setting), or it returns a
\* value of one of the shapes the tool tells apart.
ServiceOutcomes(tool, rows) ==
    {[kind |-> "raise", val |-> "Exception"]} \cup
    CASE tool = "get_schema_exploration_guide" ->
            {[kind |-> "value", val |-> ExplorationPath(rows)]}
      [] tool = "get_starter_queries" ->
            {[kind |-> "value", val |-> [suggestions |-> n]] : n \in {3, 8}}
      [] tool = "get_semantic_relationships" ->
            {[kind |-> "value", val |-> [relationships |-> n]] : n \in {0, 2}}
      [] tool = "get_semantic_model_details" ->
            {[kind |-> "value", val |-> [found |-> FALSE, relationships |-> 0]]} \cup
            {[kind |-> "value", val |-> [found |-> TRUE, relationships |-> n]] : n \in {0, 2}}

\* The str a tool builds from the value of its service function.
ToolText(tool, v) ==
    CASE tool = "get_schema_exploration_guide" ->
            IF v.recommendation
            THEN [type |-> "str", says |-> "recommendation", total |-> 0, steps |-> <<>>]
            ELSE [type |-> "str", says |-> "guide", total |-> v.total_tables,
                  steps |-> v.exploration_steps]
      [] tool = "get_starter_queries" ->
            [type |-> "str", says |-> "queries", total |-> v.suggestions, steps |-> <<>>]
      [] tool = "get_semantic_relationships" ->
            [type |-> "str",
             says |-> IF v.relationships = 0 THEN "none found" ELSE "relationships",
             total |-> v.relationships, steps |-> <<>>]
      [] tool = "get_semantic_model_details" ->
            [type |-> "str", says |-> IF v.found THEN "information" ELSE "message",
             total |-> v.relationships, steps |-> <<>>]

\* As ToolResult, had the tools no try around their body.
MutToolResult(tool, o) ==
    IF o.kind = "raise" THEN o ELSE [kind |-> "value", val |-> ToolText(tool, o.val)]

\* The body of each tool is one try whose handler returns an f-string
\* with the error (lines 40-65 and 87-113 of query_suggestions_mcp_tools,
\* 32-60 and 76-100 of semantic_model_mcp_tools).
ToolResult(tool, o) ==
    [kind |-> "value",
     val |-> IF o.kind = "raise"
             THEN [type |-> "str", says |-> "error", total |-> 0, steps |-> <<>>]
             ELSE ToolText(tool, o.val)]

\* An MCP client calls one of the four tools.
McpTool ==
    /\ tpc = "idle"
    /\ \E tool \in {"get_starter_queries", "get_schema_exploration_guide",
                     "get_semantic_relationships", "get_semantic_model_details"} :
        \E counts \in TableLists :
            /\ tool # "get_schema_exploration_guide" => counts = <<>>
            /\ \E o \in ServiceOutcomes(tool, TableRows(counts)) :
                  /\ arg' = [fn |-> tool, rows |-> TableRows(counts), outcome |-> o]
                  /\ ret' = ToolResult(tool, o)
                  /\ tpc' = IF ret'.kind = "raise" THEN "raised" ELSE "returned"
    /\ UNCHANGED <<host, now, fileVars, lpc, tickVars, svcVars, readerVars, listVars,
                   environ, config, conns>>

\* ------------------------------------------- semantic_model_service.py
\* The rows an executeQueries response may carry for the relationships of
\* a model: a row may lack the Name key.
RelationshipRows ==
    [Name : {Unset, Set("r1")}, FromTable : {"A"}, FromColumn : {"id"},
     ToTable : {"B"}, ToColumn : {"id"}, CrossFilterDirection : {"One", "Both"}]

\* What a query of the endpoint may come to: the rows its loop has taken,
\* and whether the request or the loop raised after them.
QueryOutcomes ==
    [rows : UNION {[1..n -> RelationshipRows] : n \in 0..MaxRows}, failed : BOOLEAN]

\* Lines 92-100 and 155-163: the dict built for one row; a missing Name
\* becomes "", IsActive is not in these rows and becomes True.
RelationshipOf(row) ==
    [name            |-> IF row.Name = Unset THEN "" ELSE row.Name[1],
     from_table      |-> row.FromTable,
     from_column     |-> row.FromColumn,
     to_table        |-> row.ToTable,
     to_column       |-> row.ToColumn,
     cross_filtering |-> row.CrossFilterDirection,
     is_active       |-> TRUE]

\* The tuple lines 109 and 111 build for a relationship.
RelKey(r) == <<r.name, r.from_table, r.from_column, r.to_table, r.to_column>>

\* _get_relationships_via_dmv: the list built from the rows, and [] when
\* the status is not 200 or anything raised.
GetRelationshipsViaDmv(o) ==
    IF o.failed THEN <<>> ELSE [i \in 1..Len(o.rows) |-> RelationshipOf(o.rows[i])]

\* Lines 109-113: seen holds the keys of the XMLA entries and is not added
\* to; a DMV entry is appended when its key is not in seen.
MergeRelationships(relationships, dmv_rels) ==
    LET seen == {RelKey(relationships[i]) : i \in 1..Len(relationships)}
        NotSeen(rel) == RelKey(rel) \notin seen
    IN  relationships \o SelectSeq(dmv_rels, NotSeen)

\* get_semantic_model_relationships: the token (outside any try), the XMLA
\* query, whose entries stay in the list when it raises, and the DMV query.
GetSemanticModelRelationships ==
    /\ tpc = "idle"
    /\ \E token \in BOOLEAN, xmla \in QueryOutcomes, dmv \in QueryOutcomes :
        /\ arg' = [fn |-> "get_semantic_model_relationships", token |-> token,
                   xmla |-> xmla, dmv |-> dmv]
        /\ IF token
           THEN /\ ret' = [kind |-> "value",
                           val |-> MergeRelationships(
                                       [i \in 1..Len(xmla.rows) |-> RelationshipOf(xmla.rows[i])],
                                       GetRelationshipsViaDmv(dmv))]
                /\ tpc' = "returned"
           ELSE /\ ret' = [kind |-> "raise", val |-> "_get_fabric_token"]
                /\ tpc' = "raised"
    /\ UNCHANGED <<host, now, fileVars, lpc, tickVars, svcVars, readerVars, listVars,
                   environ, config, conns>>

\* ------------------------------------------------------- specifications
\* The steps of the clock and of capture_and_log, common to both hosts.
CaptureNext ==
    \/ ClockAdvance
    \/ WaitPasses
    \/ FetchReturns
    \/ FetchRaises
    \/ Stamp
    \/ AppendRecord
    \/ AppendRaises
    \/ CaptureDone

\* query_history_logger.main: the loop.
LoggerNext ==
    \/ LoggerStart
    \/ LoggerLoop
    \/ SleepDone

\* The user's Ctrl+C.
InterruptNext ==
    \/ Interrupt
    \/ KeyboardInterruptInLoop
    \/ KeyboardInterruptAtStart

\* QueryHistoryLoggerService and the service manager's stop request.
ServiceNext ==
    \/ SvcDoRun
    \/ SvcLoop
    \/ WaitSignalled
    \/ WaitTimeout
    \/ CaptureEscapes
    \/ ErrWaitSignalled
    \/ ErrWaitTimeout
    \/ SvcStopSetEvent
    \/ SvcStopClearRunning

\* The reader process.
ReaderNext ==
    \/ ReadQueryHistory
    \/ ReaderReturn

\* The logger script, left to run, and the reader over one log file.
Next == CaptureNext \/ LoggerNext \/ ReaderNext

Spec == Init /\ [][Next]_vars

\* The capture loop under either host, with the requests to stop it.
HostNext == CaptureNext \/ LoggerNext \/ InterruptNext \/ ServiceNext

HostSpec == HostInit /\ [][HostNext]_vars

\* The logger script and a reader that repeats its calls and summarizes
\* what it has read.
RereadNext == Next \/ ReadAgain \/ Summarize

RereadSpec == Init /\ [][RereadNext]_vars

\* The logger script and a reader whose scan runs beside it.
ScanNext == CaptureNext \/ LoggerNext \/ ScanOpen \/ ScanLine \/ ScanEof \/ ReaderReturn

ScanSpec == Init /\ [][ScanNext]_vars

\* The logger script without failures, at one instant of the clock, a log
\* file that gets damaged, and the reader.
CorruptNext ==
    \/ LoggerStart \/ LoggerLoop \/ FetchReturns \/ Stamp \/ AppendRecord
    \/ CaptureDone \/ WaitPasses \/ SleepDone
    \/ Corrupt \/ ReadQueryHistory \/ ReaderReturn

CorruptSpec == Init /\ [][CorruptNext]_vars

\* The logger script without failures, at one instant of the clock, over
\* a source with long texts.
LongTextNext ==
    \/ LoggerStart \/ LoggerLoop \/ FetchLongText \/ Stamp
    \/ AppendRecord \/ CaptureDone \/ WaitPasses \/ SleepDone

LongTextSpec == Init /\ [][LongTextNext]_vars

\* summarize_queries over the lists of SummaryInputs.
SummaryNext == Summarize \/ ReaderReturn

SummarySpec == SummaryInit /\ [][SummaryNext]_vars

\* The lakehouse module in a process that sets its environment, imports
\* the module and calls the functions that open connections.
LakehouseNext ==
    \/ SetEnviron \/ ImportModule \/ CallLakehouse \/ GetConnection \/ SetTimeout
    \/ Execute \/ CloseConnection \/ ListTablesFinish \/ ToolReturn

LakehouseSpec == Init /\ [][LakehouseNext]_vars

\* The query suggestion and semantic model tools, called one after the
\* other.
McpNext == McpTool \/ ToolReturn

McpSpec == Init /\ [][McpNext]_vars

\* get_semantic_model_relationships, called again and again.
SemanticNext == GetSemanticModelRelationships \/ ToolReturn

SemanticSpec == Init /\ [][SemanticNext]_vars

\* The lakehouse tools, called one after the other.
ToolNext == ListTablesSafe \/ SampleTable \/ ToolReturn

ToolSpec == Init /\ [][ToolNext]_vars

\* The main thread keeps running (calls return, waits end), a pending
\* KeyboardInterrupt is raised, and the SvcStop handler runs to its end.
LoopStep ==
    \/ WaitPasses
    \/ FetchReturns \/ FetchRaises \/ Stamp
    \/ AppendRecord \/ AppendRaises \/ CaptureDone
    \/ LoggerStart \/ LoggerLoop \/ SleepDone
    \/ SvcDoRun \/ SvcLoop \/ WaitSignalled \/ WaitTimeout
    \/ CaptureEscapes \/ ErrWaitSignalled \/ ErrWaitTimeout

FairHostSpec ==
    /\ HostSpec
    /\ WF_vars(LoopStep)
    /\ WF_vars(KeyboardInterruptInLoop \/ KeyboardInterruptAtStart)
    /\ WF_vars(SvcStopClearRunning)

\* ---------------------------------------------------------------- claims
IsPrefix(s, t) == Len(s) <= Len(t) /\ SubSeq(t, 1, Len(s)) = s

\* The positions of the loop, from while to the end of the wait.
LoopPcs == {"loop", "fetch", "stamp", "append", "sleep", "errwait"}

\* A stop was asked for: Ctrl+C (pending or raised) or SvcStop.
StopRequested == sigint \/ lpc \in {"stopped", "raised"} \/ spc # "idle"

\* The instant a log line carries, read back from the file.
CapturedAtOf(line) == FromIsoFormat(JsonLoads(line).captured_at)

\* The dicts written for the records that satisfy Test, in log order, where
\* Test is given a record of the history (entry, at).
Wanted(Test(_)) ==
    LET sel == SelectSeq(written, Test)
    IN  [i \in 1..Len(sel) |-> sel[i].entry]

\* The record was captured at most hours_back hours before now.
InWindow(w) == w.at >= now - rparams.hours_back * UnitsPerHour

\* Two characters are the same letter, whatever their case.
SameLetter(a, b) ==
    \/ a = b
    \/ {a, b} \in {{"S", "s"}, {"E", "e"}, {"X", "x"}}

\* text contains sub when case is ignored.
ContainsIgnoringCase(text, sub) ==
    \E i \in 0..(Len(text) - Len(sub)) :
        \A j \in 1..Len(sub) : SameLetter(text[i + j], sub[j])

\* C1: every capture tick that ends, failed or not, has appended as many
\* lines to the log as the accessor returned records for it.
OneLinePerRecord ==
    [][(lpc \in {"fetch", "append"} /\ lpc' = "sleep")
         => Len(log') - tickStartLen = Len(queries)]_vars

\* C2: the log is append-only: over every step (capture ticks that succeed
\* or fail, reader calls) the old content is a prefix of the new content,
\* and the file is never removed.
LogAppendOnly ==
    [][IsPrefix(log, log') /\ (fileExists => fileExists')]_vars

LogKeptAfterFailureAndRead ==
    /\ Len(log) >= 1
    /\ outcome = "append_error"
    /\ rpc = "returned"
    /\ Len(result) >= 1

\* C3: the step in which the accessor raises leaves the log file as it was,
\* and capture_and_log returns into the loop's wait (the error is caught);
\* the loop is then never found terminated by an exception.
FetchErrorLeavesLog ==
    [][/\ (lpc = "fetch" /\ outcome' = "fetch_error")
            => (log' = log /\ fileExists' = fileExists /\ lpc' = "sleep")
       /\ (outcome = "fetch_error" /\ lpc \in LoopPcs)
            => lpc' \in LoopPcs \cup {"stopped"}]_vars

FetchErrorThenNextTick ==
    /\ outcome = "fetch_error"
    /\ lpc = "loop"
    /\ Len(log) >= 1

\* C4: after every tick, whatever failure it met, another tick starts,
\* unless a stop is asked for; under either host.
NextTickAfterEveryTick ==
    (outcome # "none") ~> (lpc = "fetch" \/ StopRequested)

ServiceRetriesAfterFailure ==
    /\ host = "service"
    /\ outcome = "append_error"
    /\ lpc = "loop"
    /\ running
    /\ spc = "idle"
    /\ Len(log) = 1

\* C5: once a stop is signalled while the loop is running (Ctrl+C for the
\* script, SvcStop for the service), the loop ends with a clean return.
StopEndsLoop ==
    (lpc \in LoopPcs /\ (sigint \/ spc # "idle")) ~> (lpc = "stopped")

StoppedAfterSvcStop ==
    /\ host = "service"
    /\ lpc = "stopped"
    /\ spc = "done"
    /\ Len(log) >= 1

\* C6: read from first line to last, captured_at never decreases; the lines
\* of the tick in progress all carry the one timestamp taken for it, which
\* is a reading of the clock at capture.
CapturedAtMonotonic ==
    /\ \A i, j \in 1..Len(log) :
          i < j => CapturedAtOf(log[i]) <= CapturedAtOf(log[j])
    /\ \A i \in 1..Len(log) :
          CapturedAtOf(log[i]) = written[i].at /\ CapturedAtOf(log[i]) <= now
    /\ lpc = "append" =>
          \A i \in (tickStartLen + 1)..Len(log) : CapturedAtOf(log[i]) = timestamp

TwoTicksInLog ==
    /\ Len(log) = 2
    /\ CapturedAtOf(log[1]) < CapturedAtOf(log[2])

\* C7: round trip: every record written, when the reader's window covers it
\* and no filter excludes it, is in the reader's result with its nine
\* fields as written.
RoundTrip ==
    rpc # "idle" =>
        \A i \in 1..Len(written) :
            ( /\ InWindow(written[i])
              /\ rparams.search_text # <<>> =>
                    ContainsIgnoringCase(written[i].entry.query_text,
                                         rparams.search_text[1])
              /\ rparams.min_cpu_ms # <<>> =>
                    written[i].entry.cpu_time_ms >= rparams.min_cpu_ms[1] )
            => \E j \in 1..Len(result) : result[j] = written[i].entry

EscapedTextsReadBack ==
    /\ rpc = "returned"
    /\ Len(result) = 2
    /\ result[1].query_text = RowA[8]
    /\ result[2].query_text = RowB[8]
    /\ DOMAIN result[1] = {Keys[i] : i \in 1..Len(Keys)}

\* C8: with no other filter, the reader returns exactly the records captured
\* within hours_back hours of now (only those captured at this instant when
\* hours_back is 0).
WindowExact ==
    (rpc # "idle" /\ rparams.search_text = <<>> /\ rparams.min_cpu_ms = <<>>)
        => /\ result = Wanted(InWindow)
           /\ rparams.hours_back = 0 =>
                 \A j \in 1..Len(result) : result[j].captured_at = IsoFormat(now)

OldRecordLeftOut ==
    /\ rpc = "returned"
    /\ rparams = [hours_back |-> 1, search_text |-> <<>>, min_cpu_ms |-> <<>>]
    /\ Len(log) = 2
    /\ Len(result) = 1

\* C9: for every threshold min_cpu_ms passed (and no search text), the
\* result is exactly the in-window records with cpu_time_ms >= the threshold.
ThresholdExact ==
    (rpc # "idle" /\ rparams.search_text = <<>> /\ rparams.min_cpu_ms # <<>>)
        => LET AtOrAbove(w) ==
                   /\ InWindow(w)
                   /\ w.entry.cpu_time_ms >= rparams.min_cpu_ms[1]
           IN  result = Wanted(AtOrAbove)

ThresholdKeepsEqual ==
    /\ rpc = "returned"
    /\ rparams.search_text = <<>>
    /\ rparams.min_cpu_ms = <<100>>
    /\ Len(log) = 2
    /\ Len(result) = 1
    /\ result[1].cpu_time_ms = 100

\* C10: the result is exactly the subsequence of the log's records, in log
\* order, that are in the window, contain search_text (case ignored) when
\* one is given, and have cpu_time_ms >= min_cpu_ms when one is given.
FilterExact ==
    rpc # "idle" =>
        LET Passes(w) ==
                /\ InWindow(w)
                /\ rparams.search_text # <<>> =>
                      ContainsIgnoringCase(w.entry.query_text, rparams.search_text[1])
                /\ rparams.min_cpu_ms # <<>> =>
                      w.entry.cpu_time_ms >= rparams.min_cpu_ms[1]
        IN  result = Wanted(Passes)

SearchIgnoresCase ==
    /\ rpc = "returned"
    /\ rparams.search_text = << <<"s", "E">> >>
    /\ rparams.min_cpu_ms = <<0>>
    /\ Len(log) = 2
    /\ Len(result) = 1
    /\ result[1].query_text = RowA[8]

\* C11: a call of read_query_history that finds no log file returns the empty
\* list, whatever its arguments, raises nothing and leaves the file missing.
MissingFileReadsEmpty ==
    [][(rpc = "idle" /\ rpc' # "idle" /\ ~fileExists)
         => (rpc' = "returned" /\ result' = <<>> /\ ~fileExists' /\ log' = <<>>)]_vars

\* A call with every filter set has returned while the file is missing.
MissingFileRead ==
    /\ rpc = "returned"
    /\ ~fileExists
    /\ rparams = [hours_back |-> 1, search_text |-> << <<"s", "E">> >>,
                  min_cpu_ms |-> <<100>>]


\* The record is still inside the window of a call made now.
StillInWindow(e) ==
    FromIsoFormat(e.captured_at) >= now - rparams.hours_back * UnitsPerHour

\* C12 as stated: a second call with the same arguments over the unchanged
\* log returns what the first call returned.
RereadIdentical ==
    rpc = "reread" => again = result

\* C12, amended: the second call returns the first call's records that are
\* still inside the window at the second call, in the same order; it
\* returns the very same list when none of them has left the window.
RereadKeepsWindowed ==
    rpc = "reread" =>
        /\ again = SelectSeq(result, StillInWindow)
        /\ (\A i \in 1..Len(result) : StillInWindow(result[i])) => again = result

\* A repeated call after the clock has moved: the first call returned two
\* records, one of which has left the window at the second call.
RereadLostOne ==
    /\ rpc = "reread"
    /\ Len(result) = 2
    /\ again = <<result[2]>>

\* The first 100 characters of a text.
First100(text) ==
    [i \in 1..(IF Len(text) < SummaryPrefix THEN Len(text) ELSE SummaryPrefix)
        |-> text[i]]

\* The input records whose text begins with pat, and the prefixes met.
Members(pat) == {i \in 1..Len(result) : First100(result[i].query_text) = pat}
AllPatterns == {First100(result[i].query_text) : i \in 1..Len(result)}
FirstIndex(pat) == CHOOSE i \in Members(pat) : \A j \in Members(pat) : i <= j

RECURSIVE CpuSum(_)
CpuSum(S) ==
    IF S = {} THEN 0
    ELSE LET i == CHOOSE j \in S : TRUE
         IN  result[i].cpu_time_ms + CpuSum(S \ {i})

RECURSIVE ExecutionsSum(_)
ExecutionsSum(lines) ==
    IF lines = <<>> THEN 0 ELSE Head(lines).executions + ExecutionsSum(Tail(lines))

\* The average is the quotient itself.
ExactAvg(avg, total, n) == avg * n = total

\* The average is the whole number nearest to the quotient, the even one of
\* the two when the quotient lies halfway.
RoundedAvg(avg, total, n) ==
    LET d == IF avg * n >= total THEN avg * n - total ELSE total - avg * n
    IN  /\ 2 * d <= n
        /\ 2 * d = n => avg % 2 = 0

\* What the report of a non-empty list says, given the test of an average.
SummaryCounts(AvgOk(_, _, _)) ==
    (rpc = "summarized" /\ result # <<>>) =>
        /\ report.found
        /\ report.total = Len(result)
        /\ report.patterns = Cardinality(AllPatterns)
        /\ report.patterns <= TopGroups => ExecutionsSum(report.top) = report.total
        /\ \A k, l \in 1..Len(report.top) :
              report.top[k].pattern = report.top[l].pattern => k = l
        /\ \A k \in 1..Len(report.top) :
              LET line == report.top[k]
                  group == Members(line.pattern)
              IN  /\ group # {}
                  /\ line.executions = Cardinality(group)
                  /\ line.total_cpu = CpuSum(group)
                  /\ AvgOk(line.avg_cpu, line.total_cpu, line.executions)

TopTenOrdered ==
    (rpc = "summarized" /\ result # <<>>) =>
        LET top == report.top
            listed == {top[k].pattern : k \in 1..Len(top)}
        IN  /\ Len(top) <= TopGroups
            /\ listed \subseteq AllPatterns
            /\ \A k, l \in 1..Len(top) :
                  k < l => top[k].executions >= top[l].executions
            /\ \A pat \in AllPatterns \ listed : \A k \in 1..Len(top) :
                  Cardinality(Members(pat)) <= top[k].executions
            /\ \A k, l \in 1..Len(top) :
                  (k < l /\ top[k].executions = top[l].executions)
                     => FirstIndex(top[k].pattern) < FirstIndex(top[l].pattern)

\* More than 10 groups: the last one met is the largest and is listed
\* first, the groups of one record follow in input order, one is left out.
EleventhGroupFirst ==
    /\ rpc = "summarized"
    /\ report.patterns > TopGroups
    /\ Len(report.top) = TopGroups
    /\ report.top[1].pattern = ShortText(MaxGroups)
    /\ report.top[1].executions = 2
    /\ report.top[2].pattern = ShortText(1)
    /\ report.top[2].executions = 1
    /\ report.top[3].pattern = ShortText(2)

ListTablesShape ==
    tpc = "listed" =>
        /\ Len(tables) = Len(dbRows)
        /\ \A i \in 1..Len(tables) :
              /\ Len(tables[i]) = 3
              /\ dbRows[i][1].t = "str" => tables[i][1] = dbRows[i][1].s
              /\ dbRows[i][2].t = "str" => tables[i][2] = dbRows[i][2].s
              /\ tables[i][3].t = "int"
              /\ tables[i][3].n \in Int
              /\ dbRows[i][3].t = "int" => tables[i][3] = dbRows[i][3]

\* Two rows came, one with None for count and one with the text 3.9: two
\* tuples are returned, with counts 0 and 3.
CountsCoerced ==
    /\ tpc = "listed"
    /\ Len(dbRows) = 2
    /\ dbRows[1][3] = PyNone
    /\ dbRows[2][3] = PyStr(<<"3", ".", "9">>)
    /\ tables[1][3] = PyInt(0)
    /\ tables[2][3] = PyInt(3)

\* The number after TOP in the query sent.
TopValue ==
    IF query.top # <<>> /\ Head(query.top) = "-"
    THEN -DigitsValue(Tail(query.top))
    ELSE DigitsValue(query.top)

\* C18: the query of lakehouse_sample_table never asks for more than 1000
\* rows, and asks for exactly limit rows when limit is between 1 and 1000.
SampleTopBounded ==
    tpc = "sampled" =>
        /\ TopValue <= 1000
        /\ (1 <= limit /\ limit <= 1000) => TopValue = limit

\* A call with limit 5000 has sent a query with TOP 1000.
LargeLimitClamped ==
    /\ tpc = "sampled"
    /\ limit = 5000
    /\ query.top = <<"1", "0", "0", "0">>

\* C19: at every moment, whatever the point at which the capture loop is
\* interrupted or stopped, the log file ends with a newline and each of its
\* lines is the whole JSON text of one record given to json.dumps.
WholeLinesOnly ==
    /\ tail = <<>>
    /\ Len(log) = Len(written)
    /\ \A i \in 1..Len(log) :
          /\ JsonValid(log[i])
          /\ log[i] = JsonDumps(written[i].entry)
          /\ {log[i][k].key : k \in 1..Len(log[i])}
                = {Keys[k] : k \in 1..Len(Keys)}

\* Ctrl+C ended the script inside a tick (the tick began and did not end)
\* after a line was written.
InterruptedInsideTick ==
    /\ host = "standalone"
    /\ lpc = "stopped"
    /\ outcome = "none"
    /\ Len(log) = 1

\* The dicts written for the first k lines that a call with the arguments
\* rparams keeps, when its cutoff is the instant c.
ExpectedOf(k, c) ==
    LET Passes(w) ==
            /\ w.at >= c
            /\ TruthyStr(rparams.search_text) =>
                  ContainsIgnoringCase(w.entry.query_text, rparams.search_text[1])
            /\ TruthyNum(rparams.min_cpu_ms) =>
                  w.entry.cpu_time_ms >= rparams.min_cpu_ms[1]
        sel == SelectSeq(SubSeq(written, 1, k), Passes)
    IN  [i \in 1..Len(sel) |-> sel[i].entry]

\* C20: a call of read_query_history whose scan runs while ticks append
\* never raises; what it has gathered is at every line, and at its return,
\* what a call with the same arguments and cutoff returns on the log made
\* of the lines taken so far; at its return these are all the lines of the
\* earlier ticks and the lines the current tick has written by then.
ScanSeesWholeRecords ==
    /\ [](/\ rpc # "raised"
          /\ rpc = "scan" =>
                /\ rpos <= Len(log)
                /\ result = ExpectedOf(rpos, rcut)
          /\ (rpc = "returned" /\ fileExists) =>
                /\ rpos = Len(log)
                /\ rpos >= ropenLen
                /\ rpos >= tickStartLen
                /\ result = ExpectedOf(rpos, rcut))
    /\ [][(rpc = "idle" /\ rpc' # "idle")
            => rcut' = now - rparams'.hours_back * UnitsPerHour]_vars

\* The file was opened empty while a tick of two records was about to
\* write; the scan took the tick's first line and returned before the
\* second was written.
ScanReturnedInsideTick ==
    /\ rpc = "returned"
    /\ ropenLen = 0
    /\ rpos = 1
    /\ Len(result) = 1
    /\ lpc = "append"
    /\ Len(queries) = 2
    /\ idx = 2

\* C21: within one tick get_query_history is called once; a fetch that
\* fails returns into the loop's wait (no retry, no escalation) and the
\* accessor is next called in a tick that the loop has begun anew.
OneFetchPerTick ==
    /\ [](/\ calls <= 1
          /\ lpc \in {"stamp", "append"} => calls = 1
          /\ outcome # "none" => calls = 1)
    /\ [][/\ calls' # calls =>
               \/ (lpc = "loop" /\ lpc' = "fetch" /\ calls' = 0)
               \/ (lpc = "fetch" /\ calls = 0 /\ calls' = 1)
          /\ outcome' = "fetch_error" /\ outcome # "fetch_error"
               => lpc' = "sleep"]_vars

\* A second tick has failed to fetch after a first that wrote a line: one
\* call in this tick, and the loop waits.
FailedFetchNotRetried ==
    /\ lpc = "sleep"
    /\ outcome = "fetch_error"
    /\ calls = 1
    /\ Len(log) = 1

\* The lines of the log that are no longer the text written for them.
MalformedLines == {i \in 1..Len(log) : log[i] # JsonDumps(written[i].entry)}

\* C22: a call of read_query_history over a log with a malformed line ends
\* in the parse error and hands no records to its caller, wherever the
\* malformed line stands and whatever the other lines and the arguments
\* are; without such a line the call returns.
MalformedLineRaises ==
    (rpc # "idle" /\ fileExists) =>
        IF MalformedLines # {}
        THEN rpc = "raised" /\ result = <<>>
        ELSE rpc = "returned"

\* The first of two lines is malformed, the second is a record that the
\* call's filters would keep: the call has raised.
RaisedBeforeValidRecord ==
    /\ rpc = "raised"
    /\ Len(log) = 2
    /\ MalformedLines = {1}
    /\ rparams = [hours_back |-> 1, search_text |-> <<>>, min_cpu_ms |-> <<>>]

\* C23: every record in the log has a query_text of at most 500 characters,
\* which is the first 500 characters of the text the source reported for it
\* (the whole text when that is shorter).
QueryTextIsPrefix ==
    /\ Len(log) = Len(written)
    /\ \A i \in 1..Len(log) :
        LET text == JsonLoads(log[i]).query_text
            reported == written[i].row[8]
        IN  /\ Len(text) <= 500
            /\ IsPrefix(text, reported)
            /\ Len(text) = IF Len(reported) <= 500 THEN Len(reported) ELSE 500

\* A text of 502 characters was logged as its first 500.
LongTextTruncated ==
    /\ Len(log) >= 1
    /\ Len(written[Len(log)].row[8]) = 502
    /\ Len(JsonLoads(log[Len(log)]).query_text) = 500

\* C24: in the service, once SvcStop has set the stop event no call of
\* capture_and_log is started any more, whatever the main loop was doing
\* then: only a capture already in progress goes on to its end.
NoCaptureAfterSvcStop ==
    [][(host = "service" /\ spc # "idle") => ~(lpc = "loop" /\ lpc' = "fetch")]_vars

\* The entries get_semantic_model_relationships builds from the rows of a
\* query outcome.
EntriesOf(o) == [i \in 1..Len(o.rows) |-> RelationshipOf(o.rows[i])]

\* C25: when the token was obtained, get_semantic_model_relationships
\* returns, whatever the two queries gave and whether or not they failed: a
\* list without two entries of the same (name, from_table, from_column,
\* to_table, to_column), which begins with every XMLA entry and holds every
\* key the DMV query returned.
MergedWithoutDuplicates ==
    (arg.fn = "get_semantic_model_relationships" /\ arg.token) =>
        /\ ret.kind = "value"
        /\ IsPrefix(EntriesOf(arg.xmla), ret.val)
        /\ ~arg.dmv.failed =>
              \A i \in 1..Len(arg.dmv.rows) :
                  \E j \in 1..Len(ret.val) :
                      RelKey(ret.val[j]) = RelKey(RelationshipOf(arg.dmv.rows[i]))
        /\ \A i, j \in 1..Len(ret.val) :
              RelKey(ret.val[i]) = RelKey(ret.val[j]) => i = j

\* A call of one of the lakehouse functions has come back to its caller.
Ended(fn) == arg.fn = fn /\ tpc \in {"returned", "raised"}

\* C26: whenever lakehouse_sql_query or lakehouse_describe_table has
\* returned or raised, alone or inside lakehouse_list_tables, and between
\* the calls, no connection is open; and a call that got no connection has
\* ended in an error.
ConnectionsClosed ==
    /\ tpc \in {"idle", "listing", "returned", "raised"} => conns = 0
    /\ \A fn \in {"lakehouse_sql_query", "lakehouse_describe_table"} :
          (Ended(fn) /\ arg.conn = Unset) => ret.kind = "raise"

ToolsReturnStrings ==
    /\ tpc # "raised"
    /\ tpc = "returned" => ret.kind = "value" /\ ret.val.type = "str"
    /\ (tpc = "returned" /\ arg.outcome.kind = "raise") => ret.val.says = "error"

\* The service function of a tool raised and the tool returned a str.
ErrorReturnedAsString ==
    /\ tpc = "returned"
    /\ arg.fn = "get_semantic_model_details"
    /\ arg.outcome.kind = "raise"
    /\ ret.val.type = "str"

\* The positions, in query order, of the tables of a size class.
SizeClass(rows, class) ==
    LET Count(i) == IF rows[i][2] = PyNone THEN 0 ELSE rows[i][2].n
    IN  {i \in 1..Len(rows) :
            CASE class = 1 -> Count(i) < 1000
              [] class = 3 -> Count(i) >= 10000
              [] OTHER -> Count(i) >= 1000 /\ Count(i) < 10000}

\* C29: for a schema with tables, every table is in exactly one of the
\* lists small (< 1000 rows), large (>= 10000) and medium (the others);
\* step k of the guide names the first three tables of its class, in query
\* order, and no more; no table is named in two steps; total_tables is
\* the number of rows the query returned; and the tool's text carries
\* the same total and steps.
GuideClassesTables ==
    (tpc = "returned" /\ arg.fn = "get_schema_exploration_guide"
        /\ arg.outcome.kind = "value" /\ arg.rows # <<>>) =>
        LET guide == arg.outcome.val
            tbls == LakehouseSqlQuery(arg.rows)
            lists == <<Classes(tbls).small, Classes(tbls).medium, Classes(tbls).large>>
            Name(i) == arg.rows[i][1].s
        IN  /\ \A i \in 1..Len(tbls) :
                  Cardinality({k \in 1..3 :
                      \E j \in 1..Len(lists[k]) : lists[k][j] = tbls[i]}) = 1
            /\ \A k \in 1..3 :
                  /\ \A j \in 1..Len(lists[k]) :
                        \E i \in SizeClass(arg.rows, k) : lists[k][j] = tbls[i]
                  /\ Len(guide.exploration_steps[k]) <= 3
                  /\ Len(guide.exploration_steps[k]) =
                        Min(Cardinality(SizeClass(arg.rows, k)), 3)
                  /\ \A j \in 1..Len(guide.exploration_steps[k]) :
                        \E i \in SizeClass(arg.rows, k) :
                            /\ guide.exploration_steps[k][j] = Name(i)
                            /\ Cardinality({h \in SizeClass(arg.rows, k) : h < i}) = j - 1
            /\ \A k, l \in 1..3 :
                  k # l => \A j \in 1..Len(guide.exploration_steps[k]) :
                              \A h \in 1..Len(guide.exploration_steps[l]) :
                                  guide.exploration_steps[k][j] # guide.exploration_steps[l][h]
            /\ guide.total_tables = Len(arg.rows)
            /\ ret.val.says = "guide"
            /\ ret.val.total = guide.total_tables
            /\ ret.val.steps = guide.exploration_steps

\* Four small tables: the first step names the first three of them.
FourthSmallTableLeftOut ==
    /\ tpc = "returned"
    /\ arg.fn = "get_schema_exploration_guide"
    /\ arg.outcome.kind = "value"
    /\ Len(arg.rows) = 4
    /\ SizeClass(arg.rows, 1) = 1..4
    /\ arg.outcome.val.exploration_steps[1] = <<<<"t", "1">>, <<"t", "2">>, <<"t", "3">>>>
    /\ arg.outcome.val.total_tables = 4

====
